---- MODULE Spec2Model ----
(***************************************************************************)
(* Flow Runner of the web test recorder extension: the background          *)
(* coordinator (execution-engine.js, background.js, state.js) driving the  *)
(* content-script step engine (content.js, playback.js) of every frame.    *)
(***************************************************************************)
EXTENDS Integers, Sequences, FiniteSets, TLC

\* ---------------------------------------------------------------- bounds
MaxRestarts == 1
MaxStops == 1
\* maxSendAttempts is 60 in the source; the model keeps the loop's shape
\* (attempt, sleep, ..., exhaust) with a smaller count.
maxSendAttempts == 2

Frames == {1, 2}

\* ---------------------------------------------------------------- steps
\* A recorded step, reduced to what the runner and the step engine branch
\* on: its action, the frame in which its target resolves (0: in no frame),
\* whether performing it starts a full page load, whether performing it
\* throws an exception other than element-not-found, and whether the
\* element's state differs from the recorded snapshot.
Step(a, at, loads, fault, nuance) ==
  [action |-> a, at |-> at, loads |-> loads, fault |-> fault, nuance |-> nuance]

StepTypes ==
  { Step("navigate", 0, FALSE, FALSE, FALSE),
    Step("click", 1, FALSE, FALSE, FALSE),
    Step("click", 0, FALSE, FALSE, FALSE),
    Step("click", 1, TRUE, FALSE, FALSE),
    Step("input", 2, FALSE, FALSE, TRUE),
    Step("input", 1, FALSE, TRUE, FALSE),
    Step("assertExists", 2, FALSE, FALSE, FALSE) }

\* a step a run is meant to get past: a navigation, or a step whose target
\* resolves in a frame and whose action does not throw
Passable(s) == s.action = "navigate" \/ (s.at # 0 /\ ~s.fault)

\* the flows replayed: every flow of at most two steps in which no step
\* follows one that no run gets past
Flows == {<<>>} \cup {<<s>> : s \in StepTypes}
                \cup {<<s, t>> : s \in {x \in StepTypes : Passable(x)}, t \in StepTypes}

\* step indexes the cursor can take (it can pass the end of the flow)
StepIndexes == UNION {0..(Len(flow) + 1) : flow \in Flows}

\* ---------------------------------------------------------------- state
VARIABLES
  executionState,      \* state.js: the executionState object
  lastExecutionStatus, \* state.js: lastExecutionStatus (<<>> is null)
  stored,              \* chrome.storage.local: recorder_executionState
  timers,              \* armed step timers (the step index each was armed for)
  pendingExec,         \* pending setTimeout(() => executeCurrentStep())
  conts,               \* executeCurrentStep suspended at its first await
  loops,               \* sendMessageToAllFrames closures
  fins,                \* finishExecution suspended at await fetch
  cei,                 \* playback.js: currentlyExecutingIndex of each frame
  acts,                \* executeSingleStep invocations in flight
  queue,               \* runtime messages of each frame not yet handled
  loading,             \* the tab is loading a document
  statusUpdates,       \* EXECUTION_STATUS_UPDATE messages sent so far
  navigations,         \* chrome.tabs.update calls made for each step index
  dispatches,          \* times each step index passed the dispatch guard
  runs, restarts, stops,
  shown,               \* the targets of the flow's steps are rendered in
                       \* the documents of their frames
  call,                \* a call of a function of the content scripts under
                       \* study: the function, its arguments, its result
  currentSteps,        \* popup: the steps listed on screen
  selectedStepIndex,   \* popup: the selected row (0-based, -1 is none)
  currentTestCase,     \* state.js: the test case being recorded
  isRecording,         \* state.js: isRecording
  toPopup,             \* messages and responses to the popup in flight
  commands,            \* backend: the rows of table commands
  tests,               \* backend: the ids of the rows of table tests
  recorded, saves      \* steps recorded and flows posted so far

recorderVars == <<currentSteps, selectedStepIndex, currentTestCase,
                  isRecording, toPopup, commands, tests,
                  recorded, saves>>

runnerVars == <<executionState, lastExecutionStatus, stored, timers,
                pendingExec, conts, loops, fins, cei, acts, queue, loading,
                statusUpdates, navigations, dispatches, runs, restarts, stops,
                shown>>

vars == <<executionState, lastExecutionStatus, stored, timers, pendingExec,
          conts, loops, fins, cei, acts, queue, loading, statusUpdates,
          navigations, dispatches, runs, restarts, stops, shown, call,
          currentSteps, selectedStepIndex, currentTestCase, isRecording,
          toPopup, commands, tests, recorded, saves>>

NoTimer == -1
NoError == [kind |-> "null", step |-> 0]
UserStopped == [kind |-> "User stopped execution", step |-> 0]
\* a timeout message that does not name the step
TimeoutError_NoStep(index) == [kind |-> "Timeout waiting for step", step |-> 0]

TimeoutError(index) == [kind |-> "Timeout waiting for step", step |-> index + 1]
ExhaustedError == [kind |-> "Element not found after search attempts", step |-> 0]
TabError == [kind |-> "Target tab not found", step |-> 0]
FrameError(text) == [kind |-> text, step |-> 0]

ZeroCounts == [i \in StepIndexes |-> 0]

InitialExecutionState ==
  [isRunning |-> FALSE, testId |-> FALSE, steps |-> <<>>, currentIndex |-> 0,
   executingIndex |-> -1, waitingForNavigation |-> FALSE,
   activeStepAction |-> "null", stepTimeout |-> NoTimer, detectedBugs |-> <<>>]

\* saveState: the snapshot written to storage (timeout handles are not kept)
Persisted(E, L) == <<[es |-> [E EXCEPT !.stepTimeout = NoTimer], les |-> L]>>

\* a finishExecution that reports a user stop as a success
StatusOf_StopIsSuccess(success, error) ==
  IF success \/ error = UserStopped THEN "success" ELSE "failed"

\* a finishExecution that reports every unsuccessful end as failed
StatusOf_StopIsFailure(success, error) ==
  IF success THEN "success" ELSE "failed"

\* finishExecution: the status string of the report
StatusOf(success, error) ==
  IF success THEN "success"
  ELSE IF error = UserStopped THEN "stopped" ELSE "failed"

\* clearTimeout(executionState.stepTimeout) on the armed timers T
ClearStepTimeout(E, T) == IF E.stepTimeout # NoTimer THEN T \ {E.stepTimeout} ELSE T

\* finishExecution(success, error) called with executionState E, timers T,
\* in run r
finishExecution(E, T, r, success, error) ==
  LET E1 == [E EXCEPT !.stepTimeout = NoTimer, !.isRunning = FALSE,
                      !.waitingForNavigation = FALSE]
      statusObj == [success |-> success, error |-> error,
                    status |-> StatusOf(success, error),
                    stepCount |-> E.currentIndex +
                      (IF success THEN 0 ELSE IF error # NoError THEN 0 ELSE 1),
                    bugs |-> E.detectedBugs, run |-> r]
  IN /\ timers' = ClearStepTimeout(E, T)
     /\ executionState' = E1
     /\ statusUpdates' = Append(statusUpdates, statusObj)
     /\ IF E.testId
          THEN /\ fins' = fins \cup {statusObj}
               /\ UNCHANGED <<lastExecutionStatus, stored>>
          ELSE /\ lastExecutionStatus' = <<statusObj>>
               /\ stored' = Persisted(E1, <<statusObj>>)
               /\ fins' = fins

\* a dispatch that arms no timer
ArmedTimers_Unarmed(E, T, index) == ClearStepTimeout(E, T)

\* the timer a dispatch arms for step index
ArmedTimers(E, T, index) == ClearStepTimeout(E, T) \cup {index}

\* an executeCurrentStep without the double-execution guard
AlreadyExecuting_Unguarded(E) == FALSE

\* the double-execution guard of executeCurrentStep
AlreadyExecuting(E) == E.executingIndex = E.currentIndex

\* executeCurrentStep up to its first await, called with executionState E,
\* timers T and dispatch counts D, in run r
executeCurrentStep(E, T, r, D) ==
  IF ~E.isRunning
    THEN /\ executionState' = E
         /\ timers' = T
         /\ dispatches' = D
         /\ UNCHANGED <<conts, stored, statusUpdates, lastExecutionStatus, fins>>
  ELSE IF E.currentIndex >= Len(E.steps)
    THEN /\ finishExecution(E, T, r, TRUE, NoError)
         /\ dispatches' = D
         /\ conts' = conts
  ELSE IF AlreadyExecuting(E)
    THEN /\ executionState' = E
         /\ timers' = T
         /\ dispatches' = D
         /\ UNCHANGED <<conts, stored, statusUpdates, lastExecutionStatus, fins>>
  ELSE LET index == E.currentIndex
           step == E.steps[index + 1]
           E1 == [E EXCEPT !.executingIndex = index,
                           !.activeStepAction = step.action]
       IN /\ stored' = Persisted(E1, lastExecutionStatus)
          /\ executionState' = [E1 EXCEPT !.stepTimeout = index]
          /\ timers' = ArmedTimers(E, T, index)
          /\ dispatches' = [D EXCEPT ![index] = @ + 1]
          /\ conts' = conts \cup {[run |-> r, index |-> index, step |-> step]}
          /\ UNCHANGED <<statusUpdates, lastExecutionStatus, fins>>

\* no function call under study
NoCall == [fn |-> "none", args |-> <<>>, done |-> FALSE, result |-> <<>>]

\* the service worker and the content scripts after they have loaded
InitCoordinator ==
  /\ executionState = InitialExecutionState
  /\ lastExecutionStatus = <<>>
  /\ stored = <<>>
  /\ timers = {}
  /\ pendingExec = 0
  /\ conts = {}
  /\ loops = {}
  /\ fins = {}
  /\ cei = [f \in Frames |-> -1]
  /\ acts = {}
  /\ queue = [f \in Frames |-> <<>>]
  /\ loading = FALSE
  /\ statusUpdates = <<>>
  /\ navigations = ZeroCounts
  /\ dispatches = ZeroCounts
  /\ runs = 0
  /\ restarts = 0
  /\ stops = 0

\* the runner, on a page that has rendered whatever it is going to render
InitRunner == InitCoordinator /\ shown = TRUE

\* state.js: nothing recorded; the popup lists nothing; an empty database
InitRecorder ==
  /\ currentSteps = <<>>
  /\ selectedStepIndex = -1
  /\ currentTestCase = [steps |-> <<>>]
  /\ isRecording = FALSE
  /\ toPopup = <<>>
  /\ commands = <<>>
  /\ tests = {}
  /\ recorded = 0
  /\ saves = 0

Init == InitRunner /\ InitRecorder /\ call = NoCall

\* onMessage START_EXECUTION
StartExecution(flow, tid) ==
  /\ runs' = runs + 1
  /\ LET E == [executionState EXCEPT
                 !.isRunning = TRUE, !.testId = tid, !.steps = flow,
                 !.currentIndex = 0, !.executingIndex = -1,
                 !.waitingForNavigation = FALSE, !.detectedBugs = <<>>]
     IN executeCurrentStep(E, timers, runs + 1, ZeroCounts)
  /\ navigations' = ZeroCounts
  /\ UNCHANGED <<pendingExec, loops, cei, acts, queue, loading, restarts, stops>>

\* a delayed executeCurrentStep callback fires
DelayedExecute ==
  /\ pendingExec > 0
  /\ pendingExec' = pendingExec - 1
  /\ executeCurrentStep(executionState, timers, runs, dispatches)
  /\ UNCHANGED <<loops, cei, acts, queue, loading, navigations, runs,
                 restarts, stops>>

\* onMessage STOP_EXECUTION
StopExecution ==
  /\ stops < MaxStops
  /\ stops' = stops + 1
  /\ finishExecution(executionState, timers, runs, FALSE, UserStopped)
  /\ UNCHANGED <<pendingExec, conts, loops, cei, acts, queue, loading,
                 navigations, dispatches, runs, restarts>>

\* the step timer armed for step index expires
StepTimeout(index) ==
  /\ index \in timers
  /\ finishExecution(executionState, timers \ {index}, runs, FALSE,
                     TimeoutError(index))
  /\ UNCHANGED <<pendingExec, conts, loops, cei, acts, queue, loading,
                 navigations, dispatches, runs, restarts, stops>>

\* the old document is torn down: its content scripts and their timers go
FreshFrames == [f \in Frames |-> -1]

\* executeCurrentStep, navigate branch: the run parks itself for the load
NavigateSuspends(E) ==
  [E EXCEPT !.waitingForNavigation = TRUE, !.activeStepAction = "navigate"]

\* executeCurrentStep, navigate branch: already on the target URL
NavigateSkips(E) == [E EXCEPT !.currentIndex = @ + 1]

\* the entry guard of sendMessageToAllFrames
LoopGuard(E, index) == E.isRunning /\ E.currentIndex = index

\* executeCurrentStep's navigate branch calls log(...), which no script of
\* the service worker (state.js, execution-engine.js, background.js)
\* defines: the call throws a ReferenceError into the catch block
LogDefined == FALSE

LogError == [kind |-> "log is not defined", step |-> 0]

\* executeCurrentStep resumed after its awaits (chrome.tabs.get, storage):
\* the navigate branch, or the first call of sendMessageToAllFrames
ContinueStep(c, tabFound, sameUrl) ==
  /\ c \in conts
  /\ conts' = conts \ {c}
  /\ IF ~tabFound
       THEN /\ finishExecution(executionState, timers, runs, FALSE, TabError)
            /\ UNCHANGED <<pendingExec, loops, cei, acts, loading, navigations>>
     ELSE IF c.step.action = "navigate" /\ sameUrl
       THEN IF LogDefined
              THEN /\ executionState' = NavigateSkips(executionState)
                   /\ pendingExec' = pendingExec + 1
                   /\ UNCHANGED <<loops, cei, acts, loading, navigations,
                                  timers, stored, statusUpdates,
                                  lastExecutionStatus, fins>>
              ELSE /\ finishExecution(executionState, timers, runs, FALSE, LogError)
                   /\ UNCHANGED <<pendingExec, loops, cei, acts, loading,
                                  navigations>>
     ELSE IF c.step.action = "navigate"
       THEN IF LogDefined
              THEN /\ executionState' = NavigateSuspends(executionState)
                   /\ navigations' = [navigations EXCEPT ![c.index] = @ + 1]
                   /\ loading' = TRUE
                   /\ cei' = FreshFrames
                   /\ acts' = {}
                   /\ UNCHANGED <<pendingExec, loops, timers, stored,
                                  statusUpdates, lastExecutionStatus, fins>>
              ELSE /\ finishExecution(NavigateSuspends(executionState), timers,
                                      runs, FALSE, LogError)
                   /\ UNCHANGED <<pendingExec, loops, cei, acts, loading,
                                  navigations>>
     ELSE /\ loops' = IF LoopGuard(executionState, c.index)
                        THEN loops \cup {[run |-> c.run, index |-> c.index,
                                          step |-> c.step, sendAttempts |-> 0,
                                          ph |-> "await"]}
                        ELSE loops
          /\ UNCHANGED <<executionState, pendingExec, cei, acts, loading,
                         navigations, timers, stored, statusUpdates,
                         lastExecutionStatus, fins>>
  /\ UNCHANGED <<queue, dispatches, runs, restarts, stops>>

\* ------------------------------------------------ content script (frames)
IsAssert(step) == step.action \in {"assertExists", "assertText"}

Msg(type, index, info) == [type |-> type, stepIndex |-> index, info |-> info]

\* locateElement + isElementVisible in frame f
Resolves(step, f) == step.at = f /\ shown

\* content.js: the assert branch of EXECUTE_SINGLE_STEP, i.e. the message
\* verifyAssertion's promise sends back from frame f
AssertReply(step, index, f) ==
  IF ~Resolves(step, f)
    THEN Msg("STEP_ERROR", index, "Assertion Failed: Element not found")
  ELSE IF step.fault
    THEN Msg("STEP_ERROR", index, "Assertion Failed: Expected text")
  ELSE Msg("STEP_COMPLETE", index, "")

\* playback.js executeSingleStep: its entry guard
SkipsStep(C, f, index) == C[f] = index

\* a catch block that swallows every exception
ReportsFailure_Swallow(text) == FALSE

\* the catch block of executeSingleStep: which exceptions are reported
ReportsFailure(text) == text # "Element not found"

\* an invocation of executeSingleStep that ends without any effect: the
\* target is no part of the frame's document, rendered or not, and the
\* exception is swallowed
Silent(step, f) == step.at # f /\ ~ReportsFailure("Element not found")

\* EXECUTE_SINGLE_STEP handled by every frame: new invocations (those that
\* end without effect are left out), executing indexes, assertion replies
Received(step, index) ==
  /\ acts' = IF IsAssert(step) THEN acts
             ELSE acts \cup {[frame |-> f, index |-> index, step |-> step] :
                             f \in {g \in Frames : /\ ~SkipsStep(cei, g, index)
                                                   /\ ~Silent(step, g)}}
  /\ cei' = IF IsAssert(step) THEN cei ELSE [f \in Frames |-> index]
  /\ queue' = IF IsAssert(step)
                THEN [f \in Frames |-> Append(queue[f], AssertReply(step, index, f))]
                ELSE queue

\* playback.js executeSingleStep in one frame, after its entry guard: the
\* locating loop, nuance detection, the action and the report.  A click
\* that starts a page load tears the document down; its delayed
\* STEP_COMPLETE is sent only if the timer beats the unload.
FrameExecute(a, sent) ==
  /\ a \in acts
  /\ LET f == a.frame
         found == Resolves(a.step, f)
         nuance == IF found /\ a.step.nuance
                     THEN <<Msg("BUG_DETECTED", cei[f], "nuance")>> ELSE <<>>
         thrown == IF ~found THEN "Element not found"
                   ELSE IF a.step.fault THEN "Action failed" ELSE ""
         failure == IF thrown # "" /\ ReportsFailure(thrown)
                      THEN <<Msg("BUG_DETECTED", a.index, "error"),
                             Msg("STEP_ERROR", a.index, thrown)>>
                      ELSE <<>>
         unloads == thrown = "" /\ a.step.action = "click" /\ a.step.loads
         complete == IF thrown = "" /\ (~unloads \/ sent)
                       THEN <<Msg("STEP_COMPLETE", a.index, "")>> ELSE <<>>
     IN /\ queue' = [queue EXCEPT ![f] = @ \o nuance \o failure \o complete]
        /\ acts' = IF unloads THEN {} ELSE acts \ {a}
        /\ cei' = IF unloads THEN FreshFrames ELSE cei
        /\ loading' = (loading \/ unloads)
        /\ (sent \/ unloads)
  /\ UNCHANGED <<executionState, lastExecutionStatus, stored, timers,
                 pendingExec, conts, loops, fins, statusUpdates, navigations,
                 dispatches, runs, restarts, stops>>

\* ------------------------------------------------ broadcast loop
\* setTimeout(sendMessageToAllFrames, 1000) fires
LoopWake(l) ==
  /\ l \in loops
  /\ l.ph = "sleep"
  /\ loops' = IF LoopGuard(executionState, l.index)
                THEN (loops \ {l}) \cup {[l EXCEPT !.ph = "await"]}
                ELSE loops \ {l}
  /\ UNCHANGED <<executionState, lastExecutionStatus, stored, timers,
                 pendingExec, conts, fins, cei, acts, queue, loading,
                 statusUpdates, navigations, dispatches, runs, restarts, stops>>

\* sendMessageToAllFrames resumed after getAllFrames / executeScript
LoopSend(l, framesOk) ==
  /\ l \in loops
  /\ l.ph = "await"
  /\ IF ~framesOk
       THEN /\ loops' = (loops \ {l}) \cup {[l EXCEPT !.ph = "sleep"]}
            /\ UNCHANGED <<executionState, timers, stored, statusUpdates,
                           lastExecutionStatus, fins, cei, acts, queue>>
     ELSE /\ Received(l.step, l.index)
          /\ IF l.sendAttempts + 1 < maxSendAttempts
               THEN /\ loops' = (loops \ {l}) \cup
                                {[l EXCEPT !.ph = "sleep", !.sendAttempts = @ + 1]}
                    /\ UNCHANGED <<executionState, timers, stored,
                                   statusUpdates, lastExecutionStatus, fins>>
               ELSE /\ loops' = loops \ {l}
                    /\ finishExecution(
                         [executionState EXCEPT !.detectedBugs =
                            Append(@, [stepIndex |-> l.index, type |-> "error",
                                       message |-> "Element not found after search attempts"])],
                         timers, runs, FALSE, ExhaustedError)
  /\ UNCHANGED <<pendingExec, conts, loading, navigations, dispatches, runs,
                 restarts, stops>>

\* ------------------------------------------------ background handlers
\* a STEP_COMPLETE handler that ignores the reported step index
CompletionAccepted_AnyIndex(E, m) == E.isRunning

\* background.js onMessage: BUG_DETECTED, STEP_COMPLETE, STEP_ERROR
CompletionAccepted(E, m) == E.isRunning /\ m.stepIndex = E.currentIndex

ErrorAccepted(E, m) == E.isRunning

\* a BUG_DETECTED handler that records every bug as an error
BugEntry_AsError(m) ==
  [stepIndex |-> m.stepIndex, type |-> "error", message |-> m.info]

\* a BUG_DETECTED handler that drops the kind of the bug
BugEntry_Untyped(m) ==
  [stepIndex |-> m.stepIndex, type |-> "unknown", message |-> m.info]

\* onMessage BUG_DETECTED: the entry pushed to detectedBugs (message.bug)
BugEntry(m) ==
  [stepIndex |-> m.stepIndex, type |-> m.info, message |-> m.info]

OnMessage(f) ==
  /\ queue[f] # <<>>
  /\ queue' = [queue EXCEPT ![f] = Tail(@)]
  /\ LET m == Head(queue[f])
         E == executionState
     IN IF m.type = "BUG_DETECTED" /\ E.isRunning
             THEN LET E1 == [E EXCEPT !.detectedBugs = Append(@, BugEntry(m))]
                  IN /\ executionState' = E1
                     /\ stored' = Persisted(E1, lastExecutionStatus)
                     /\ UNCHANGED <<timers, pendingExec, statusUpdates,
                                    lastExecutionStatus, fins>>
           ELSE IF m.type = "STEP_COMPLETE" /\ CompletionAccepted(E, m)
             THEN LET E1 == [E EXCEPT !.stepTimeout = NoTimer,
                                      !.currentIndex = @ + 1,
                                      !.activeStepAction = "null"]
                  IN /\ timers' = ClearStepTimeout(E, timers)
                     /\ executionState' = E1
                     /\ stored' = Persisted(E1, lastExecutionStatus)
                     /\ pendingExec' = pendingExec + 1
                     /\ UNCHANGED <<statusUpdates, lastExecutionStatus, fins>>
           ELSE IF m.type = "STEP_ERROR" /\ ErrorAccepted(E, m)
             THEN /\ finishExecution(E, timers, runs, FALSE, FrameError(m.info))
                  /\ UNCHANGED pendingExec
           ELSE UNCHANGED <<executionState, stored, timers, pendingExec,
                            statusUpdates, lastExecutionStatus, fins>>
  /\ UNCHANGED <<conts, loops, cei, acts, loading, navigations, dispatches,
                 runs, restarts, stops>>

\* an onUpdated listener that takes every load-complete for the navigation
\* of the step
NavigationExpected_Always(E) == TRUE

\* chrome.tabs.onUpdated: which load-complete events advance the run
NavigationExpected(E) ==
  E.waitingForNavigation \/ E.activeStepAction \in {"navigate", "click"}

\* the timers left armed by the onUpdated listener
TimersAfterLoad(E, T) == T

\* chrome.tabs.onUpdated with status "complete" for the run's tab
LoadComplete ==
  /\ loading
  /\ loading' = FALSE
  /\ IF executionState.isRunning /\ NavigationExpected(executionState)
       THEN LET E1 == [executionState EXCEPT !.waitingForNavigation = FALSE,
                                             !.activeStepAction = "null",
                                             !.currentIndex = @ + 1]
            IN /\ executionState' = E1
               /\ stored' = Persisted(E1, lastExecutionStatus)
               /\ timers' = TimersAfterLoad(executionState, timers)
               /\ pendingExec' = pendingExec + 1
       ELSE UNCHANGED <<executionState, stored, timers, pendingExec>>
  /\ UNCHANGED <<lastExecutionStatus, conts, loops, fins, cei, acts, queue,
                 statusUpdates, navigations, dispatches, runs, restarts, stops>>

\* finishExecution resumed after await fetch: lastExecutionStatus, saveState
FinishReported(s) ==
  /\ s \in fins
  /\ fins' = fins \ {s}
  /\ lastExecutionStatus' = <<s>>
  /\ stored' = Persisted(executionState, <<s>>)
  /\ UNCHANGED <<executionState, timers, pendingExec, conts, loops, cei, acts,
                 queue, loading, statusUpdates, navigations, dispatches, runs,
                 restarts, stops>>

\* state.js loadState: the callbacks scheduled when the state is restored
ResumeCallbacks(E) == IF E.isRunning THEN 1 ELSE 0

\* the service worker is torn down and started again: timers, callbacks and
\* closures are gone, loadState restores what saveState wrote
Restart ==
  /\ restarts < MaxRestarts
  /\ restarts' = restarts + 1
  /\ LET E == IF stored = <<>> THEN InitialExecutionState ELSE stored[1].es
     IN /\ executionState' = E
        /\ pendingExec' = ResumeCallbacks(E)
  /\ lastExecutionStatus' = IF stored = <<>> THEN <<>> ELSE stored[1].les
  /\ timers' = {}
  /\ conts' = {}
  /\ loops' = {}
  /\ fins' = {}
  /\ UNCHANGED <<stored, cei, acts, queue, loading, statusUpdates,
                 navigations, dispatches, runs, stops>>

\* every callback, timer and message of a run
Callbacks ==
  \/ DelayedExecute /\ UNCHANGED <<shown, call, recorderVars>>
  \/ \E index \in StepIndexes : StepTimeout(index) /\ UNCHANGED <<shown, call, recorderVars>>
  \/ \E c \in conts, tabFound \in BOOLEAN, sameUrl \in BOOLEAN :
       ContinueStep(c, tabFound, sameUrl) /\ UNCHANGED <<shown, call, recorderVars>>
  \/ \E l \in loops : LoopWake(l) /\ UNCHANGED <<shown, call, recorderVars>>
  \/ \E l \in loops, framesOk \in BOOLEAN : LoopSend(l, framesOk) /\ UNCHANGED <<shown, call, recorderVars>>
  \/ \E a \in acts, sent \in BOOLEAN : FrameExecute(a, sent) /\ UNCHANGED <<shown, call, recorderVars>>
  \/ \E f \in Frames : OnMessage(f) /\ UNCHANGED <<shown, call, recorderVars>>
  \/ LoadComplete /\ UNCHANGED <<shown, call, recorderVars>>

\* one run of a flow without test id; the user may stop it
Next ==
  \/ \E flow \in Flows :
       runs = 0 /\ StartExecution(flow, FALSE) /\ UNCHANGED <<shown, call, recorderVars>>
  \/ StopExecution /\ UNCHANGED <<shown, call, recorderVars>>
  \/ Callbacks

Spec == Init /\ [][Next]_vars

\* one run of a flow; the service worker may be restarted
NextRestart ==
  \/ \E flow \in Flows :
       runs = 0 /\ StartExecution(flow, FALSE) /\ UNCHANGED <<shown, call, recorderVars>>
  \/ Restart /\ UNCHANGED <<shown, call, recorderVars>>
  \/ Callbacks

SpecRestart == Init /\ [][NextRestart]_vars

\* ---------------------------------------------------------------- claims
Running == executionState.isRunning
Cursor == executionState.currentIndex
Reports == {statusUpdates[k] : k \in DOMAIN statusUpdates}

\* the first terminal report of the current run
FirstReports ==
  {statusUpdates[k] : k \in {j \in DOMAIN statusUpdates :
     /\ statusUpdates[j].run = runs
     /\ \A i \in 1..(j - 1) : statusUpdates[i].run # runs}}

\* C1: once the service worker has been restarted and the resume callback
\* has run, a run that is still active has its current step driven again:
\* a step timer is armed for it (so it cannot stay 'running' forever).
C1_ResumeRedrivesStep ==
  (restarts > 0 /\ Running /\ pendingExec = 0) => timers # {}

\* C2: a navigate step at the cursor whose URL differs from the tab's
\* suspends the run for navigation, triggers the navigation once and does
\* not fail the run; the load-complete signal then ends the suspension and
\* advances the cursor by one without a new dispatch.
C2_NavigateSuspendsThenAdvances ==
  [][ /\ \A c \in conts :
           ( /\ c.step.action = "navigate"
             /\ LoopGuard(executionState, c.index)
             /\ ContinueStep(c, TRUE, FALSE) )
           => /\ executionState'.isRunning
              /\ executionState'.waitingForNavigation
              /\ navigations'[c.index] = 1
              /\ statusUpdates' = statusUpdates
      /\ (LoadComplete /\ Running /\ executionState.waitingForNavigation)
           => /\ executionState'.currentIndex = Cursor + 1
              /\ ~executionState'.waitingForNavigation
              /\ dispatches' = dispatches
              /\ navigations' = navigations ]_vars

\* the current run was made terminal by a user stop
StopMadeTerminal ==
  /\ runs > 0
  /\ ~Running
  /\ \E u \in FirstReports : u.status = "stopped"

\* C3: after a user stop has made the run terminal, no callback of the run
\* changes the cursor, the status, the navigation flag or the bug list,
\* sends a step to the page, navigates, or produces a terminal report.
C3_NothingAfterStop ==
  [][ (StopMadeTerminal /\ stops' = stops)
        => /\ executionState'.currentIndex = Cursor
           /\ executionState'.isRunning = Running
           /\ executionState'.waitingForNavigation =
                executionState.waitingForNavigation
           /\ executionState'.detectedBugs = executionState.detectedBugs
           /\ statusUpdates' = statusUpdates
           /\ navigations' = navigations
           /\ acts' \subseteq acts ]_vars

\* C4: at most one step timer is armed, it belongs to the step at the
\* cursor of the active run, and no timeout ends the run for a step the
\* cursor has already passed.
C4_OneTimerAtCursor ==
  /\ Cardinality(timers) <= 1
  /\ \A t \in timers : Running /\ t = Cursor
  /\ \A u \in Reports :
       u.error.kind = "Timeout waiting for step" => u.error.step = u.stepCount + 1

\* a STEP_COMPLETE report at the head of frame f's queue
CompletionAtHead(f) ==
  /\ queue[f] # <<>>
  /\ Head(queue[f]).type = "STEP_COMPLETE"

\* C5 (as stated): the cursor moves only by one, and only when the step at
\* the cursor is reported complete to the active run.
C5_AdvanceOnlyOnCompletion ==
  [][ executionState'.currentIndex # Cursor
        => /\ executionState'.currentIndex = Cursor + 1
           /\ \E f \in Frames : /\ CompletionAtHead(f)
                                /\ Head(queue[f]).stepIndex = Cursor
                                /\ Running
                                /\ OnMessage(f) ]_vars

\* C5 (amended): the cursor advances only by one, and only on a completion
\* report carrying the cursor's index received by the active run, or on a
\* load-complete received by the active run while it waits for a navigation
\* or its active step is a navigate or click step; a completion report with
\* any other index, or received when no run is active, never moves it.
C5_AdvanceCauses ==
  [][ /\ executionState'.currentIndex > Cursor
        => /\ executionState'.currentIndex = Cursor + 1
           /\ Running
           /\ \/ \E f \in Frames : /\ CompletionAtHead(f)
                                   /\ Head(queue[f]).stepIndex = Cursor
                                   /\ OnMessage(f)
              \/ /\ LoadComplete
                 /\ NavigationExpected(executionState)
      /\ \A f \in Frames :
           ( /\ CompletionAtHead(f)
             /\ (~Running \/ Head(queue[f]).stepIndex # Cursor)
             /\ OnMessage(f) )
           => executionState'.currentIndex = Cursor ]_vars

\* C5 witness: the active run is at its second step while a completion
\* report for the first step is still to be handled.
C5_StaleCompletionPending ==
  /\ Running
  /\ Cursor = 1
  /\ \E f \in Frames : CompletionAtHead(f) /\ Head(queue[f]).stepIndex = 0

\* C6: within a run every step index passes the dispatch guard at most
\* once, so there is at most one timer and at most one continuation or
\* broadcast loop per index, however often executeCurrentStep is invoked.
C6_SingleDispatch ==
  /\ Cardinality(timers) <= 1
  /\ \A i \in StepIndexes :
       /\ dispatches[i] <= 1
       /\ Cardinality({c \in conts : c.index = i})
            + Cardinality({l \in loops : l.index = i}) <= 1

\* C6 witness: after a restart the resume callback invoked
\* executeCurrentStep for the index already dispatched and returned.
C6_RedundantInvocation ==
  /\ restarts > 0
  /\ Running
  /\ pendingExec = 0
  /\ executionState.executingIndex = Cursor
  /\ dispatches[Cursor] = 1
  /\ conts = {} /\ loops = {} /\ timers = {}

\* C7: the run never fails with an element-not-found error of one frame
\* while a step of the flow resolves in another frame.
C7_NotFoundInOneFrameTolerated ==
  \A u \in Reports :
    u.error = FrameError("Assertion Failed: Element not found")
      => \A i \in DOMAIN executionState.steps : executionState.steps[i].at = 0

\* C8: no run ends with a timeout attributed to a click step that the
\* cursor has already passed (after a page load completed during it).
C8_NoTimeoutForPassedClick ==
  \A u \in Reports :
    ( /\ u.error.kind = "Timeout waiting for step"
      /\ executionState.steps[u.error.step].action = "click" )
      => u.stepCount < u.error.step

\* C9: a stop request received by an active run (running or suspended)
\* makes it terminal with status stopped at once and leaves no timer armed.
C9_StopIsImmediate ==
  [][ (stops' # stops /\ Running)
        => /\ ~executionState'.isRunning
           /\ ~executionState'.waitingForNavigation
           /\ executionState'.stepTimeout = NoTimer
           /\ timers' = {}
           /\ Len(statusUpdates') = Len(statusUpdates) + 1
           /\ statusUpdates'[Len(statusUpdates')].status = "stopped" ]_vars

\* C9 witness: a run with steps whose first terminal report is the stop
C9_StoppedWhileActive ==
  /\ StopMadeTerminal
  /\ executionState.steps # <<>>
  /\ timers = {}

\* the report names step index i and says its element was not found
NamesStepNotFound(u, i) ==
  \E k \in DOMAIN u.bugs :
    /\ u.bugs[k].stepIndex = i
    /\ u.bugs[k].type = "error"
    /\ u.bugs[k].message = "Element not found after search attempts"

\* C10: a run that ends (other than by a stop or a lost tab) on a click
\* step whose target resolves in no frame ends failed, with an error that
\* names the step and says the element was not found.
C10_UnresolvableClickReportsNotFound ==
  \A u \in FirstReports :
    ( /\ u.stepCount < Len(executionState.steps)
      /\ executionState.steps[u.stepCount + 1].action = "click"
      /\ executionState.steps[u.stepCount + 1].at = 0
      /\ u.error \notin {UserStopped, TabError} )
      => u.status = "failed" /\ NamesStepNotFound(u, u.stepCount)

\* the current run ended by the timeout of the step at its cursor
TimedOutAtCursor ==
  /\ ~Running
  /\ \E u \in FirstReports :
       /\ u.error.kind = "Timeout waiting for step"
       /\ u.error.step = u.stepCount + 1

\* C11: when the timer of the step at the cursor of the active run expires,
\* the run ends failed with a timeout message naming that step, and after
\* that no step is dispatched and the cursor does not move.
C11_TimeoutFailsRun ==
  [][ /\ \A i \in timers :
           (Running /\ i = Cursor /\ StepTimeout(i))
           => /\ ~executionState'.isRunning
              /\ Len(statusUpdates') = Len(statusUpdates) + 1
              /\ LET u == statusUpdates'[Len(statusUpdates')]
                 IN /\ u.status = "failed"
                    /\ u.error.kind = "Timeout waiting for step"
                    /\ u.error.step = i + 1
      /\ TimedOutAtCursor
           => /\ dispatches' = dispatches
              /\ executionState'.currentIndex = Cursor
              /\ ~executionState'.isRunning ]_vars

\* C11 witness: a two-step run timed out on its first step; the second
\* step was never dispatched
C11_TimedOutBeforeSecondStep ==
  /\ TimedOutAtCursor
  /\ Len(executionState.steps) = 2
  /\ Cursor = 0
  /\ dispatches[0] = 1 /\ dispatches[1] = 0
  /\ conts = {} /\ loops = {} /\ pendingExec = 0

\* exception messages other than element-not-found
FatalMessages == {"Action failed", "Assertion Failed: Expected text"}

\* the current run ended by a reported step exception
FailedByStepError ==
  /\ ~Running
  /\ \E u \in FirstReports : u.error.kind \in FatalMessages

C13_NuanceIsNonFatal ==
  [][ /\ \A f \in Frames :
           ( /\ queue[f] # <<>>
             /\ Head(queue[f]).type = "BUG_DETECTED"
             /\ Head(queue[f]).info = "nuance"
             /\ OnMessage(f) )
           => /\ executionState'.currentIndex = Cursor
              /\ executionState'.isRunning = Running
              /\ executionState'.waitingForNavigation =
                   executionState.waitingForNavigation
              /\ statusUpdates' = statusUpdates
              /\ timers' = timers
              /\ pendingExec' = pendingExec
              /\ executionState'.detectedBugs =
                   IF Running
                     THEN Append(executionState.detectedBugs,
                                 [stepIndex |-> Head(queue[f]).stepIndex,
                                  type |-> "nuance", message |-> "nuance"])
                     ELSE executionState.detectedBugs
      /\ \A a \in acts :
           ( /\ Resolves(a.step, a.frame)
             /\ a.step.nuance
             /\ ~a.step.fault
             /\ FrameExecute(a, TRUE) )
           => LET q == queue'[a.frame]
              IN /\ Len(q) = Len(queue[a.frame]) + 2
                 /\ q[Len(q) - 1].type = "BUG_DETECTED"
                 /\ q[Len(q) - 1].info = "nuance"
                 /\ q[Len(q)] = [type |-> "STEP_COMPLETE", stepIndex |-> a.index,
                                 info |-> ""] ]_vars

\* C13 witness: a run that succeeded with a nuance among its bugs
C13_SucceededWithNuance ==
  /\ ~Running
  /\ \E u \in FirstReports :
       /\ u.status = "success"
       /\ \E k \in DOMAIN u.bugs : u.bugs[k].type = "nuance"

\* C14: every terminal report has status stopped exactly when it was
\* produced by a user stop, success exactly when it was produced by
\* executeCurrentStep finding the cursor past the last step, and failed in
\* every other case.
C14_StatusFollowsCause ==
  [][ Len(statusUpdates') > Len(statusUpdates)
        => LET u == statusUpdates'[Len(statusUpdates')]
               byStop == stops' # stops
               byEnd == /\ ~byStop
                        /\ (runs' # runs \/ pendingExec' < pendingExec)
                        /\ executionState'.currentIndex
                             >= Len(executionState'.steps)
           IN /\ Len(statusUpdates') = Len(statusUpdates) + 1
              /\ (u.status = "stopped") <=> byStop
              /\ (u.status = "success") <=> byEnd
              /\ (u.status = "failed") <=> (~byStop /\ ~byEnd) ]_vars

\* C14 witness: a two-step run ended with a success report after its
\* cursor passed the second step
C14_SucceededPastLastStep ==
  /\ ~Running
  /\ Len(executionState.steps) = 2
  /\ Cursor = 2
  /\ \E u \in FirstReports : u.status = "success" /\ u.stepCount = 2

\* ------------------------------------------------ text and assertions
\* A string is a sequence of one-character strings.
UpperCase == <<"A", "B", "C", "D", "E", "F", "G", "H", "I", "J", "K", "L", "M",
               "N", "O", "P", "Q", "R", "S", "T", "U", "V", "W", "X", "Y", "Z">>
LowerCase == <<"a", "b", "c", "d", "e", "f", "g", "h", "i", "j", "k", "l", "m",
               "n", "o", "p", "q", "r", "s", "t", "u", "v", "w", "x", "y", "z">>

\* String.prototype.toLowerCase
toLowerCase(str) ==
  [i \in 1..Len(str) |->
     IF \E k \in 1..26 : UpperCase[k] = str[i]
       THEN LowerCase[CHOOSE k \in 1..26 : UpperCase[k] = str[i]]
       ELSE str[i]]

\* the regular expression class \s
IsSpace(c) == c \in {" ", "\n", "\t"}

RECURSIVE trimStart(_)
trimStart(str) ==
  IF str # <<>> /\ IsSpace(Head(str)) THEN trimStart(Tail(str)) ELSE str

RECURSIVE trimEnd(_)
trimEnd(str) ==
  IF str # <<>> /\ IsSpace(str[Len(str)])
    THEN trimEnd(SubSeq(str, 1, Len(str) - 1)) ELSE str

\* String.prototype.trim
trim(str) == trimEnd(trimStart(str))

\* str.replace(/\s+/g, " ")
RECURSIVE collapseSpaces(_)
collapseSpaces(str) ==
  IF str = <<>> THEN <<>>
  ELSE IF IsSpace(Head(str))
    THEN <<" ">> \o collapseSpaces(trimStart(Tail(str)))
  ELSE <<Head(str)>> \o collapseSpaces(Tail(str))

\* a comparison that accepts only the whole text
includes_WholeText(str, part) == str = part

\* String.prototype.includes
includes(str, part) ==
  \E i \in 0..(Len(str) - Len(part)) : SubSeq(str, i + 1, i + Len(part)) = part

\* utils.js getVisibleText: texts of 100 characters or more are dropped
VisibleTextLimit == 100

\* no element located
NoElement == [found |-> FALSE, visible |-> FALSE, text |-> <<>>]

getVisibleText(element) ==
  IF ~element.found THEN <<>>
  ELSE LET normalized == trim(collapseSpaces(element.text))
       IN IF Len(normalized) > 0 /\ Len(normalized) < VisibleTextLimit
            THEN normalized ELSE <<>>

\* playback.js verifyAssertion: the text an assertText step expects
expectedTextOf(step) ==
  LET raw == IF step.innerText # <<>> THEN step.innerText ELSE step.description
  IN toLowerCase(trim(collapseSpaces(raw)))

\* a function returning value
Returned(value) == [thrown |-> FALSE, value |-> value, message |-> <<>>]

\* a function throwing an Error with the given message
Thrown(message) == [thrown |-> TRUE, value |-> FALSE, message |-> message]

\* playback.js verifyAssertion applied to the element locateElement returned
verifyAssertion(step, element) ==
  IF step.action = "assertExists"
    THEN IF ~element.found \/ ~element.visible
           THEN Thrown([text |-> "Assertion Failed: Element not found or not visible for",
                        description |-> step.description])
           ELSE Returned(TRUE)
  ELSE IF step.action = "assertText"
    THEN IF ~element.found
           THEN Thrown([text |-> "Assertion Failed: Element not found for",
                        description |-> step.description])
         ELSE LET actualText == toLowerCase(trim(collapseSpaces(getVisibleText(element))))
                  expectedText == expectedTextOf(step)
              IN IF ~includes(actualText, expectedText)
                   THEN Thrown([text |-> "Assertion Failed: Expected text",
                                expected |-> expectedText,
                                found |-> actualText])
                   ELSE Returned(TRUE)
  ELSE Returned(FALSE)

\* longest element text, in words
MaxWords == 4

Word_Not == <<"N", "o", "t">>
Word_a == <<"a">>
Word_Supplier == <<"S", "u", "p", "p", "l", "i", "e", "r">>
Word_Option == <<"O", "p", "t", "i", "o", "n">>
Word_Buyer == <<"B", "u", "y", "e", "r">>
Word_supplier == <<"s", "u", "p", "p", "l", "i", "e", "r">>

RECURSIVE JoinWords(_, _)
JoinWords(words, sep) ==
  IF words = <<>> THEN <<>>
  ELSE IF Len(words) = 1 THEN Head(words)
  ELSE Head(words) \o sep \o JoinWords(Tail(words), sep)

\* texts of the elements asserted on: up to MaxWords words, separated by a
\* blank or by a line break and indentation
ElementTexts ==
  {JoinWords(ws, sep) :
     ws \in UNION {[1..n -> {Word_Not, Word_a, Word_Supplier, Word_Option}] :
                   n \in 1..MaxWords},
     sep \in {<<" ">>, <<"\n", " ">>}}

Elements ==
  {NoElement} \cup
  {[found |-> TRUE, visible |-> v, text |-> t] : v \in BOOLEAN, t \in ElementTexts}

\* assertion steps: the expected text is the recorded innerText, or the
\* description when none was recorded
AssertSteps ==
  {[action |-> a, innerText |-> e, description |-> Word_Option] :
     a \in {"assertText", "assertExists"},
     e \in {<<>>, Word_Supplier, Word_supplier, Word_Buyer,
            JoinWords(<<Word_a, Word_Supplier>>, <<" ">>)}}

\* an assertion step is evaluated once in a frame
InitAssert ==
  /\ InitRunner /\ InitRecorder
  /\ call \in {[fn |-> "verifyAssertion", args |-> <<s, e>>, done |-> FALSE,
                result |-> <<>>] : s \in AssertSteps, e \in Elements}

CallVerifyAssertion ==
  /\ call.fn = "verifyAssertion"
  /\ ~call.done
  /\ call' = [call EXCEPT !.done = TRUE,
                          !.result = verifyAssertion(call.args[1], call.args[2])]
  /\ UNCHANGED <<runnerVars, recorderVars>>

NextAssert == CallVerifyAssertion

SpecAssert == InitAssert /\ [][NextAssert]_vars

\* the element text of the scenario and its normalized lower-case form
Text_NotASupplierOption ==
  JoinWords(<<Word_Not, Word_a, Word_Supplier, Word_Option>>, <<" ">>)

Text_notasupplieroption ==
  JoinWords(<<(<<"n", "o", "t">>), Word_a, Word_supplier,
              (<<"o", "p", "t", "i", "o", "n">>)>>, <<" ">>)

\* verifyAssertion was applied to an assertText step and an element with
\* the scenario's text
AssertedOnScenarioText ==
  /\ call.fn = "verifyAssertion"
  /\ call.done
  /\ call.args[1].action = "assertText"
  /\ call.args[2].found
  /\ call.args[2].text = Text_NotASupplierOption

\* C15 (amended): on an element whose visible text is "Not a Supplier
\* Option" an assertText step expecting "Supplier", "supplier",
\* "a Supplier" or (through its description) "Option" passes, because the
\* comparison is case-insensitive containment; a step expecting "Buyer"
\* fails with a message carrying the expected and the actual text.
C15_ContainmentDecides ==
  AssertedOnScenarioText
  => /\ call.args[1].innerText # Word_Buyer
          => ~call.result.thrown /\ call.result.value
     /\ call.args[1].innerText = Word_Buyer
          => /\ call.result.thrown
             /\ call.result.message.expected = <<"b", "u", "y", "e", "r">>
             /\ call.result.message.found = Text_notasupplieroption

\* C15 witness: the scenario's assertion was evaluated and passed
C15_SupplierScenarioPassed ==
  /\ AssertedOnScenarioText
  /\ call.args[1].innerText = Word_Supplier
  /\ ~call.result.thrown

\* C15 (as stated): an assertText step expecting "Supplier", evaluated on
\* an element whose visible text is "Not a Supplier Option", fails with a
\* message that carries the expected and the actual text.
C15_SupplierMismatchFails ==
  ( /\ call.fn = "verifyAssertion"
    /\ call.done
    /\ call.args[1].action = "assertText"
    /\ call.args[1].innerText = Word_Supplier
    /\ call.args[2].found
    /\ call.args[2].text =
         JoinWords(<<Word_Not, Word_a, Word_Supplier, Word_Option>>, <<" ">>) )
  => /\ call.result.thrown
     /\ call.result.message.expected = toLowerCase(Word_Supplier)
     /\ call.result.message.found =
          toLowerCase(JoinWords(<<Word_Not, Word_a, Word_Supplier, Word_Option>>,
                                <<" ">>))

\* ------------------------------------------------ element resolution
\* A document is the sequence of its elements in document order.  An element
\* is reduced to what resolution reads: whether isElementVisible holds for
\* it (connected, displayed, non-empty box), which of the step's strategies
\* match it, and whether its visible text contains the step's description.
MaxElements == 2
MaxStrategies == 2

StrategyKinds == {"aria", "xpath", "css"}

PageElements ==
  [visible : BOOLEAN, matchedBy : SUBSET (1..MaxStrategies), hasText : BOOLEAN]

Pages == UNION {[1..n -> PageElements] : n \in 0..MaxElements}

\* the deepQuerySelector in effect: playback.js's, which catches the
\* exception of a malformed selector, or utils.js's, which does not
DeepQueryVersions == {"playback.js", "utils.js"}

\* steps in the selector-array format: the kind of each strategy in stored
\* order, whether the description is longer than two characters, and the
\* strategies whose selector is malformed, so that the native query throws
LocateSteps ==
  [selectors : UNION {[1..n -> StrategyKinds] : n \in 1..MaxStrategies},
   described : BOOLEAN, malformed : {{}}, deepQuery : {"playback.js"}]

\* Array.prototype.find over element indexes (0: undefined)
FirstOf(indexes) ==
  IF indexes = {} THEN 0
  ELSE CHOOSE k \in indexes : \A j \in indexes : k <= j

\* the elements strategy i matches, as indexes into the page
MatchesOf(page, i) == {k \in 1..Len(page) : i \in page[k].matchedBy}

VisibleMatchesOf(page, i) == {k \in MatchesOf(page, i) : page[k].visible}

\* an exception thrown in place of an element
Threw == -1

\* safeQuerySelectorAll and getElementsByXPath: the elements strategy i
\* matches, none when the native query throws
safeQuerySelectorAll(step, page, i) ==
  IF i \in step.malformed THEN {} ELSE MatchesOf(page, i)

\* deepQuerySelector(selector) of a CSS strategy that found no element in
\* a document without shadow roots
deepQueryStrategy(step, i) ==
  IF i \in step.malformed /\ step.deepQuery = "utils.js" THEN Threw ELSE 0

\* one iteration of the loop of locateElementWithSelectorArray: the element
\* strategy i yields (0: none)
locateWithStrategy(step, page, i) ==
  LET kind == step.selectors[i]
      elements == safeQuerySelectorAll(step, page, i)
      visibleElements == {k \in elements : page[k].visible}
      firstVisibleOrFirst ==
        IF visibleElements # {} THEN FirstOf(visibleElements)
        ELSE FirstOf(elements)
  IN IF kind = "aria"
       THEN LET el == FirstOf(elements)
            IN IF el # 0 /\ page[el].visible THEN el ELSE 0
     ELSE IF kind = "xpath"
       THEN firstVisibleOrFirst
     ELSE LET byText == IF step.described
                          THEN FirstOf({k \in visibleElements : page[k].hasText})
                          ELSE 0
          IN IF byText # 0 THEN byText
             ELSE IF firstVisibleOrFirst # 0 THEN firstVisibleOrFirst
             ELSE deepQueryStrategy(step, i)

\* an exception of a strategy let through
strategyCaught_Rethrown(outcome) == outcome

\* the try/catch around each strategy: an exception is logged and the
\* strategy yields no element
strategyCaught(outcome) == IF outcome = Threw THEN 0 ELSE outcome

RECURSIVE locateFromStrategy(_, _, _)
locateFromStrategy(step, page, i) ==
  IF i > Len(step.selectors) THEN 0
  ELSE IF strategyCaught(locateWithStrategy(step, page, i)) # 0
    THEN strategyCaught(locateWithStrategy(step, page, i))
  ELSE locateFromStrategy(step, page, i + 1)

\* playback.js locateElementWithSelectorArray (0: null)
locateElementWithSelectorArray(step, page) == locateFromStrategy(step, page, 1)

InitLocate ==
  /\ InitRunner /\ InitRecorder
  /\ call \in {[fn |-> "locateElementWithSelectorArray", args |-> <<s, p>>,
                done |-> FALSE, result |-> 0] :
               s \in LocateSteps, p \in Pages}

CallLocateWithSelectorArray ==
  /\ call.fn = "locateElementWithSelectorArray"
  /\ ~call.done
  /\ call' = [call EXCEPT
                !.done = TRUE,
                !.result = locateElementWithSelectorArray(call.args[1], call.args[2])]
  /\ UNCHANGED <<runnerVars, recorderVars>>

NextLocate == CallLocateWithSelectorArray

SpecLocate == InitLocate /\ [][NextLocate]_vars

\* strategies of the step that have a visible match in the page
StrategiesWithVisibleMatch(step, page) ==
  {i \in 1..Len(step.selectors) : VisibleMatchesOf(page, i) # {}}

\* C16: resolution returns a visible match of the earliest strategy that
\* has one, and never returns an invisible element.
C16_EarliestVisibleMatch ==
  (call.fn = "locateElementWithSelectorArray" /\ call.done)
  => LET step == call.args[1]
         page == call.args[2]
         having == StrategiesWithVisibleMatch(step, page)
     IN /\ call.result # 0 => page[call.result].visible
        /\ having # {}
             => call.result \in VisibleMatchesOf(page, FirstOf(having))

\* ------------------------------------------------ locateElement
\* Documents with texts: an element also has a tag, a text and whether the
\* step's legacy target selector matches it.
FuzzyTags == {"button", "a", "span"}

Text_OK == <<"O", "K">>
Text_Save == <<"S", "a", "v", "e">>
Text_SAVE == <<" ", "S", "A", "V", "E">>
Text_SaveAll == <<"S", "a", "v", "e", " ", "a", "l", "l">>

TextElements ==
  [found : {TRUE}, visible : BOOLEAN, matchedBy : SUBSET {1},
   matchedByTarget : BOOLEAN, tag : {"button", "p"},
   text : {Text_OK, Text_SAVE, Text_SaveAll}]

TextPages == UNION {[1..n -> TextElements] : n \in 0..MaxElements}

\* steps: one explicit strategy, an optional legacy CSS target, a description
TextSteps ==
  [selectors : [1..1 -> StrategyKinds], target : {"", "css"},
   description : {<<>>, Text_OK, Text_Save}, malformed : {{}},
   deepQuery : {"playback.js"}]

\* no description to prefer
cssExpectedText_Blank(step) == <<>>

\* locateElementWithSelectorArray: the description a CSS strategy prefers
cssExpectedText(step) == trim(toLowerCase(step.description))

\* the step and the page as locateElementWithSelectorArray reads them
ArrayStep(step) ==
  [selectors |-> step.selectors, described |-> Len(cssExpectedText(step)) > 2,
   malformed |-> step.malformed, deepQuery |-> step.deepQuery]

ArrayPage(step, page) ==
  [k \in 1..Len(page) |->
     [visible |-> page[k].visible, matchedBy |-> page[k].matchedBy,
      hasText |-> includes(trim(toLowerCase(getVisibleText(page[k]))),
                           cssExpectedText(step))]]

\* playback.js locateElementLegacy for a raw CSS target: the first visible
\* candidate (0: null); a malformed target matches nothing
locateElementLegacy(step, page) ==
  IF step.target # "css" THEN 0
  ELSE FirstOf({k \in 1..Len(page) : page[k].matchedByTarget /\ page[k].visible})

\* fuzzyFallbackSearch: the bounds on the length of the search text
FuzzyMinLength == 2
FuzzyMaxLength == 50

normalizedText(str) == toLowerCase(trim(collapseSpaces(str)))

\* playback.js fuzzyFallbackSearch (0: null); a step in the selector-array
\* format has no selectors.css, so its shadow search is skipped
fuzzyFallbackSearch(step, page) ==
  LET searchText == step.description
  IN IF Len(searchText) > FuzzyMinLength /\ Len(searchText) < FuzzyMaxLength
       THEN FirstOf({k \in 1..Len(page) :
                      /\ page[k].tag \in FuzzyTags
                      /\ includes(normalizedText(getVisibleText(page[k])),
                                  normalizedText(searchText))
                      /\ page[k].visible})
       ELSE 0

\* deepQuerySelector(step.target): the first match in the document; for a
\* malformed target the exception, unless the version in effect catches it
deepQuerySelector(step, page) ==
  IF step.target = "" THEN 0
  ELSE IF step.target = "malformed"
    THEN (IF step.deepQuery = "utils.js" THEN Threw ELSE 0)
  ELSE FirstOf({k \in 1..Len(page) : page[k].matchedByTarget})

\* playback.js locateElement (0: null)
locateElement(step, page) ==
  LET byArray == locateElementWithSelectorArray(ArrayStep(step), ArrayPage(step, page))
      byLegacy == locateElementLegacy(step, page)
      byFuzzy == fuzzyFallbackSearch(step, page)
  IN IF byArray # 0 THEN byArray
     ELSE IF byLegacy # 0 THEN byLegacy
     ELSE IF byFuzzy # 0 THEN byFuzzy
     ELSE deepQuerySelector(step, page)

InitResolve ==
  /\ InitRunner /\ InitRecorder
  /\ call \in {[fn |-> "locateElement", args |-> <<s, p>>, done |-> FALSE,
                result |-> 0] : s \in TextSteps, p \in TextPages}

CallLocateElement ==
  /\ call.fn = "locateElement"
  /\ ~call.done
  /\ call' = [call EXCEPT !.done = TRUE,
                          !.result = locateElement(call.args[1], call.args[2])]
  /\ UNCHANGED <<runnerVars, recorderVars>>

NextResolve == CallLocateElement

SpecResolve == InitResolve /\ [][NextResolve]_vars

\* elements the fuzzy search is to find: visible, of a fuzzy-searchable
\* tag, with normalized text equal to the normalized description
ExactFuzzyMatches(step, page) ==
  {k \in 1..Len(page) :
     /\ page[k].visible
     /\ page[k].tag \in FuzzyTags
     /\ normalizedText(page[k].text) = normalizedText(step.description)}

\* C17: for a non-empty description, when neither the explicit strategy nor
\* the legacy target matches any element and the document has a visible
\* element of a fuzzy-searchable tag whose normalized text equals the
\* description, locateElement returns a visible fuzzy-searchable element
\* whose text contains the description.
C17_FuzzyFallbackFinds ==
  (call.fn = "locateElement" /\ call.done)
  => LET step == call.args[1]
         page == call.args[2]
     IN ( /\ step.description # <<>>
          /\ \A k \in 1..Len(page) :
               page[k].matchedBy = {} /\ ~page[k].matchedByTarget
          /\ ExactFuzzyMatches(step, page) # {} )
        => /\ call.result # 0
           /\ page[call.result].visible
           /\ page[call.result].tag \in FuzzyTags

MaxCandidates == 1

\* steps whose CSS and XPath strategies may be malformed, with a legacy
\* target that is absent, well-formed or malformed
FallbackSteps ==
  UNION {[selectors : [1..n -> {"css", "xpath"}], target : {"", "css", "malformed"},
          description : {<<>>, Text_Save}, malformed : SUBSET (1..n),
          deepQuery : DeepQueryVersions] : n \in 1..MaxStrategies}

\* documents of up to MaxCandidates buttons "Save all", each matched by at
\* most one strategy
FallbackPages ==
  UNION {[1..n -> [found : {TRUE}, visible : BOOLEAN,
                   matchedBy : {{}} \cup {{i} : i \in 1..MaxStrategies},
                   matchedByTarget : BOOLEAN, tag : {"button"},
                   text : {Text_SaveAll}]] : n \in 0..MaxCandidates}

InitFallback ==
  /\ InitRunner /\ InitRecorder
  /\ call \in {[fn |-> "locateElement", args |-> <<s, p>>, done |-> FALSE,
                result |-> 0] : s \in FallbackSteps, p \in FallbackPages}

NextFallback == CallLocateElement

SpecFallback == InitFallback /\ [][NextFallback]_vars

\* the strategies whose query runs and matches an element
MatchingStrategies(step, page) ==
  {i \in 1..Len(step.selectors) :
     i \notin step.malformed /\ MatchesOf(page, i) # {}}

\* a fallback finds an element: the legacy target a visible one, the fuzzy
\* search a visible one containing the description, the deep query any
FallbackFinds(step, page) ==
  \/ step.target = "css"
     /\ \E k \in 1..Len(page) : page[k].matchedByTarget
  \/ Len(step.description) > FuzzyMinLength
     /\ \E k \in 1..Len(page) :
          /\ page[k].visible
          /\ page[k].tag \in FuzzyTags
          /\ includes(normalizedText(page[k].text), normalizedText(step.description))

Digits == {"0", "1", "2", "3", "4", "5", "6", "7", "8", "9"}

\* the regular expression class [0-9a-f]
HexLower == Digits \cup {"a", "b", "c", "d", "e", "f"}

Letters(alphabet) == {alphabet[k] : k \in 1..26}

\* any digit taken for a run of digits
hasDigitRun_AnyDigit(str, n) == \E i \in 1..Len(str) : str[i] \in Digits

\* the regular expression \d{n,}
hasDigitRun(str, n) ==
  \E i \in 1..(Len(str) - n + 1) : \A k \in 0..(n - 1) : str[i + k] \in Digits

\* String.prototype.startsWith
startsWith(str, part) ==
  Len(str) >= Len(part) /\ SubSeq(str, 1, Len(part)) = part

HexMinLength == 16
DigitRunLength == 5

\* no prefix allow-listed
StablePrefixes_None == {}

\* the alternatives of /^(mui|btn|nav|list|item|cell)-/i
StablePrefixes ==
  {<<"m", "u", "i", "-">>, <<"b", "t", "n", "-">>, <<"n", "a", "v", "-">>, <<"l", "i", "s", "t", "-">>, <<"i", "t", "e", "m", "-">>, <<"c", "e", "l", "l", "-">>}

\* the literal alternatives of /\d{5,}|uuid|random|test-?id|tfid-/i
DynamicMarkers ==
  {<<"u", "u", "i", "d">>, <<"r", "a", "n", "d", "o", "m">>, <<"t", "e", "s", "t", "i", "d">>, <<"t", "e", "s", "t", "-", "i", "d">>, <<"t", "f", "i", "d", "-">>}

\* isDynamic of the selector builder, on a string value
isDynamic(value) ==
  IF Len(value) >= HexMinLength /\ \A i \in 1..Len(value) : value[i] \in HexLower
    THEN TRUE
  ELSE IF \E p \in StablePrefixes : startsWith(toLowerCase(value), p)
    THEN FALSE
  ELSE \/ hasDigitRun(value, DigitRunLength)
       \/ \E m \in DynamicMarkers : includes(toLowerCase(value), m)

IdDigitRunLength == 4
HashMinLength == 5
HashMaxLength == 8

\* isDynamicId of the recorder
isDynamicId(str) ==
  IF str = <<>> THEN FALSE
  ELSE IF Head(str) \in Digits THEN TRUE
  ELSE IF hasDigitRun(str, IdDigitRunLength) THEN TRUE
  ELSE /\ Len(str) >= HashMinLength
       /\ Len(str) <= HashMaxLength
       /\ \A i \in 1..Len(str) :
            str[i] \in Letters(LowerCase) \cup Letters(UpperCase) \cup Digits
       /\ \A i \in 1..Len(str) : str[i] \notin Digits
       /\ \E i \in 1..Len(str) : str[i] \in Letters(LowerCase)
       /\ \E i \in 1..Len(str) : str[i] \in Letters(UpperCase)

\* ---------------------------------------------------------------------
\* The selector builder (generateSelectors and its helpers)
\* ---------------------------------------------------------------------

\* the icon words of isGenericIconText
iconWords ==
  {<<"c", "h", "e", "v", "r", "o", "n", "_", "r", "i", "g", "h", "t">>, <<"c", "h", "e", "v", "r", "o", "n", "_", "l", "e", "f", "t">>, <<"e", "x", "p", "a", "n", "d", "_", "m", "o", "r", "e">>, <<"e", "x", "p", "a", "n", "d", "_", "l", "e", "s", "s">>,
   <<"f", "i", "l", "e", "_", "d", "o", "w", "n", "l", "o", "a", "d">>, <<"f", "i", "l", "e", "_", "u", "p", "l", "o", "a", "d">>, <<"w", "e", "s", "t">>, <<"e", "a", "s", "t">>, <<"n", "o", "r", "t", "h">>,
   <<"s", "o", "u", "t", "h">>, <<"m", "e", "n", "u">>, <<"m", "o", "r", "e", "_", "v", "e", "r", "t">>, <<"m", "o", "r", "e", "_", "h", "o", "r", "i", "z">>, <<"c", "l", "o", "s", "e">>, <<"a", "d", "d">>,
   <<"r", "e", "m", "o", "v", "e">>, <<"s", "e", "a", "r", "c", "h">>, <<"f", "i", "l", "t", "e", "r", "_", "l", "i", "s", "t">>, <<"e", "d", "i", "t">>, <<"d", "e", "l", "e", "t", "e">>,
   <<"d", "o", "w", "n", "l", "o", "a", "d">>, <<"u", "p", "l", "o", "a", "d">>, <<"r", "e", "f", "r", "e", "s", "h">>}

\* str.split(" ").filter(Boolean)
RECURSIVE splitWords(_, _)
splitWords(str, word) ==
  IF str = <<>> THEN (IF word = <<>> THEN <<>> ELSE <<word>>)
  ELSE IF Head(str) = " "
    THEN (IF word = <<>> THEN <<>> ELSE <<word>>) \o splitWords(Tail(str), <<>>)
  ELSE splitWords(Tail(str), Append(word, Head(str)))

isGenericIconText(text) ==
  IF text = <<>> THEN FALSE
  ELSE LET normalized == toLowerCase(trim(collapseSpaces(text)))
           parts == splitWords(normalized, <<>>)
       IN \/ normalized \in iconWords
          \/ Len(parts) > 0 /\ \A k \in 1..Len(parts) : parts[k] \in iconWords

AriaNameLimit == 80

\* buildAriaSelector; the accessible name is the element's descriptor,
\* <<>> stands for the null it returns
buildAriaSelector(element) ==
  LET accessibleName == element.accessibleName
  IN IF /\ accessibleName # <<>>
        /\ Len(trim(accessibleName)) > 0
        /\ Len(accessibleName) < AriaNameLimit
       THEN LET finalName == trim(collapseSpaces(accessibleName))
            IN IF isGenericIconText(finalName) THEN <<>>
               ELSE <<"a", "r", "i", "a", "/">> \o finalName
       ELSE <<>>

\* value.replace(/"/g, '\\"')
RECURSIVE escapeQuotes(_)
escapeQuotes(value) ==
  IF value = <<>> THEN <<>>
  ELSE (IF Head(value) = "\"" THEN <<"\\", "\"">> ELSE <<Head(value)>>)
       \o escapeQuotes(Tail(value))

\* CSS.escape: a leading digit becomes a code point escape, a character
\* that is no letter, digit, hyphen or underscore gets a backslash
CSSescape(id) ==
  LET plain == Letters(LowerCase) \cup Letters(UpperCase) \cup Digits
               \cup {"-", "_"}
      escapeAt[i \in 0..Len(id)] ==
        IF i = 0 THEN <<>>
        ELSE escapeAt[i - 1] \o
             (IF i = 1 /\ id[i] \in Digits THEN <<"\\", "3", id[i], " ">>
              ELSE IF id[i] \in plain THEN <<id[i]>>
              ELSE <<"\\", id[i]>>)
  IN escapeAt[Len(id)]

\* the test attributes generateSelectors reads, with the element field
\* that holds the attribute's value (<<>> when the attribute is absent)
testAttrs ==
  <<[attr |-> <<"d", "a", "t", "a", "-", "t", "e", "s", "t", "i", "d">>, field |-> "testid"],
    [attr |-> <<"d", "a", "t", "a", "-", "c", "y">>, field |-> "cy"],
    [attr |-> <<"d", "a", "t", "a", "-", "t", "e", "s", "t">>, field |-> "test"]>>

\* the attributes buildSelector holds stable that an element here carries
stableAttrs ==
  <<[attr |-> <<"d", "a", "t", "a", "-", "t", "e", "s", "t", "i", "d">>, field |-> "testid"],
    [attr |-> <<"d", "a", "t", "a", "-", "c", "y">>, field |-> "cy"],
    [attr |-> <<"n", "a", "m", "e">>, field |-> "name"],
    [attr |-> <<"p", "l", "a", "c", "e", "h", "o", "l", "d", "e", "r">>, field |-> "placeholder"]>>

\* buildSelector: a stable id, else the first stable attribute, else the
\* path climbed through the ancestors (element.scopedPath)
buildSelector(element) ==
  IF element.id # <<>> /\ ~isDynamic(element.id)
    THEN <<"#">> \o CSSescape(element.id)
  ELSE LET stable == {k \in 1..Len(stableAttrs) :
                        /\ element[stableAttrs[k].field] # <<>>
                        /\ ~isDynamic(element[stableAttrs[k].field])}
       IN IF stable # {}
            THEN LET a == stableAttrs[FirstOf(stable)]
                 IN toLowerCase(element.tagName) \o <<"[">> \o a.attr \o <<"=", "\\", "\"">>
                    \o element[a.field] \o <<"\\", "\"", "]">>
            ELSE element.scopedPath

\* generateSelectors, step 2: one selector per test attribute whose value
\* is not dynamic
RECURSIVE testAttrSelectors(_, _)
testAttrSelectors(element, k) ==
  IF k > Len(testAttrs) THEN <<>>
  ELSE LET value == element[testAttrs[k].field]
       IN (IF value # <<>> /\ ~isDynamic(value)
             THEN << <<<<"[">> \o testAttrs[k].attr \o <<"=", "\\", "\"">>
                       \o escapeQuotes(value) \o <<"\\", "\"", "]">>>> >>
             ELSE <<>>)
          \o testAttrSelectors(element, k + 1)

\* buildCssPath: el.className.split throws for an element whose className
\* is no string (an SVG element), el.parentNode.children for an element
\* without a parent; the path walked is element.cssPath
buildCssPath(element) ==
  IF element.className = "SVGAnimatedString"
    THEN Thrown([text |-> "TypeError: el.className.split is not a function"])
  ELSE IF ~element.parentNode
    THEN Thrown([text |-> "TypeError: el.parentNode is null"])
  ELSE Returned(element.cssPath)

XpathTextLimit == 50
ContainsMinLength == 3

\* generateSelectors, steps 1 to 9: the selectors in the order pushed,
\* each a one-element array
candidateSelectors(element) ==
  LET ariaSelector == buildAriaSelector(element)
      tag == toLowerCase(element.tagName)
      css == buildSelector(element)
      text == trim(collapseSpaces(getVisibleText(element)))
      cssPath == buildCssPath(element).value
      xpath == element.xpath
  IN (IF ariaSelector # <<>> THEN << <<ariaSelector>> >> ELSE <<>>)
     \o testAttrSelectors(element, 1)
     \o (IF element.name # <<>> /\ ~isDynamic(element.name)
           THEN << <<tag \o <<"[", "n", "a", "m", "e", "=", "\\", "\"">> \o escapeQuotes(element.name)
                     \o <<"\\", "\"", "]">>>> >>
           ELSE <<>>)
     \o (IF element.placeholder # <<>>
           THEN << <<<<"[", "p", "l", "a", "c", "e", "h", "o", "l", "d", "e", "r", "=", "\\", "\"">> \o escapeQuotes(element.placeholder)
                     \o <<"\\", "\"", "]">>>> >>
           ELSE <<>>)
     \o (IF element.id # <<>> /\ ~isDynamic(element.id)
           THEN << <<<<"#">> \o CSSescape(element.id)>> >>
           ELSE <<>>)
     \o (IF css # <<>> THEN << <<css>> >> ELSE <<>>)
     \o (IF /\ text # <<>>
            /\ Len(text) < XpathTextLimit
            /\ ~includes(text, <<"'">>)
            /\ ~isGenericIconText(text)
           THEN << <<<<"x", "p", "a", "t", "h", "/", "/", "/">> \o tag \o <<"[", "n", "o", "r", "m", "a", "l", "i", "z", "e", "-", "s", "p", "a", "c", "e", "(", ".", ")", "=", "'">> \o text
                     \o <<"'", "]">>>> >>
                \o (IF Len(text) > ContainsMinLength
                      THEN << <<<<"x", "p", "a", "t", "h", "/", "/", "/">> \o tag
                                \o <<"[", "c", "o", "n", "t", "a", "i", "n", "s", "(", "n", "o", "r", "m", "a", "l", "i", "z", "e", "-", "s", "p", "a", "c", "e", "(", ".", ")", ",", " ", "'">> \o text
                                \o <<"'", ")", "]">>>> >>
                      ELSE <<>>)
           ELSE <<>>)
     \o (IF cssPath # <<>> /\ cssPath # css THEN << <<cssPath>> >> ELSE <<>>)
     \o (IF xpath # <<>> THEN << <<<<"x", "p", "a", "t", "h", "/", "/">> \o xpath>> >> ELSE <<>>)

hasDataAttr(sel) ==
  \/ includes(sel, <<"[", "d", "a", "t", "a", "-", "t", "e", "s", "t", "i", "d">>)
  \/ includes(sel, <<"[", "d", "a", "t", "a", "-", "c", "y">>)
  \/ includes(sel, <<"[", "d", "a", "t", "a", "-", "t", "e", "s", "t">>)
  \/ includes(sel, <<"[", "d", "a", "t", "a", "-", "q", "a">>)

hasName(sel) == includes(sel, <<"[", "n", "a", "m", "e", "=">>)

hasPlaceholder(sel) == includes(sel, <<"[", "p", "l", "a", "c", "e", "h", "o", "l", "d", "e", "r", "=">>)

isId(sel) == startsWith(sel, <<"#">>)

isAria(sel) == startsWith(sel, <<"a", "r", "i", "a", "/">>)

isXpath(sel) == startsWith(sel, <<"x", "p", "a", "t", "h", "/">>)

GroupCount == 8

\* the predicate of the g-th addGroup call
groupPredicate(g, sel) ==
  CASE g = 1 -> hasDataAttr(sel)
    [] g = 2 -> hasName(sel)
    [] g = 3 -> hasPlaceholder(sel)
    [] g = 4 -> isId(sel)
    [] g = 5 -> isAria(sel)
    [] g = 6 -> ~isXpath(sel) /\ ~isAria(sel)
    [] g = 7 -> isXpath(sel)
    [] g = 8 -> TRUE

\* the addGroup calls from the g-th on: each appends, in list order, the
\* selectors not used yet that satisfy its predicate
RECURSIVE addGroup(_, _, _, _)
addGroup(selectors, orderedSelectors, used, g) ==
  IF g > GroupCount THEN orderedSelectors
  ELSE LET picked == {idx \in (1..Len(selectors)) \ used :
                        groupPredicate(g, selectors[idx][1])}
           added == SelectSeq([idx \in 1..Len(selectors) |-> idx],
                              LAMBDA idx : idx \in picked)
       IN addGroup(selectors,
                   orderedSelectors \o [k \in 1..Len(added) |-> selectors[added[k]]],
                   used \cup picked, g + 1)

\* a generateSelectors without the grouping: the list as assembled
orderedSelectors_Ungrouped(element) == candidateSelectors(element)

\* generateSelectors: the list after the first reordering
orderedSelectors(element) == addGroup(candidateSelectors(element), <<>>, {}, 1)

\* s[0].includes(":nth-")
isFragile(s) == includes(s[1], <<":", "n", "t", "h", "-">>)

\* the last move left out
reorderedSelectors_Unmoved(ordered) == ordered

\* generateSelectors: selectors containing :nth- pushed to the end
reorderedSelectors(ordered) ==
  SelectSeq(ordered, LAMBDA s : ~isFragile(s))
  \o SelectSeq(ordered, LAMBDA s : isFragile(s))

getSelectorType(selector) ==
  IF selector = <<>> THEN "css"
  ELSE IF startsWith(selector, <<"a", "r", "i", "a", "/">>) THEN "aria"
  ELSE IF startsWith(selector, <<"x", "p", "a", "t", "h", "/">>) THEN "xpath"
  ELSE IF startsWith(selector, <<"#">>) THEN "id"
  ELSE IF includes(selector, <<"[", "d", "a", "t", "a", "-", "t", "e", "s", "t", "i", "d">>) THEN "testId"
  ELSE IF includes(selector, <<"[", "n", "a", "m", "e">>) THEN "name"
  ELSE "css"

\* the object generateSelectors returns; the fields copied from the
\* element's attributes are left out
selectorObject(element) ==
  LET reordered == reorderedSelectors(orderedSelectors(element))
      css == buildSelector(element)
      primary == IF Len(reordered) > 0 THEN reordered[1][1]
                 ELSE IF css # <<>> THEN css ELSE element.xpath
  IN [selectors |-> reordered,
      selector |-> primary,
      selectorType |-> getSelectorType(primary),
      css |-> css,
      xpath |-> element.xpath,
      id |-> IF element.id # <<>> /\ ~isDynamic(element.id)
               THEN element.id ELSE <<>>]

\* generateSelectors: the exception of buildCssPath is not caught
generateSelectors(element) ==
  IF buildCssPath(element).thrown THEN buildCssPath(element)
  ELSE Returned(selectorObject(element))

\* the reordering as the reordering test copies it
testReordering(selectors) ==
  SelectSeq(selectors, LAMBDA s : ~includes(s[1], <<":", "n", "t", "h", "-">>))
  \o SelectSeq(selectors, LAMBDA s : includes(s[1], <<":", "n", "t", "h", "-">>))

\* the selectors of the reordering test
mockSelectors ==
  << <<<<"a", "r", "i", "a", "/", "S", "u", "p", "p", "l", "i", "e", "r">>>>,
     <<<<"d", "i", "v", " ", ">", " ", "s", "p", "a", "n", ":", "n", "t", "h", "-", "o", "f", "-", "t", "y", "p", "e", "(", "2", ")">>>>,
     <<<<"[", "d", "a", "t", "a", "-", "t", "e", "s", "t", "i", "d", "=", "\\", "\"", "s", "u", "p", "p", "l", "i", "e", "r", "-", "i", "d", "\\", "\"", "]">>>>,
     <<<<"x", "p", "a", "t", "h", "/", "/", "/", "s", "p", "a", "n", "[", "n", "o", "r", "m", "a", "l", "i", "z", "e", "-", "s", "p", "a", "c", "e", "(", ".", ")", "=", "'", "S", "u", "p", "p", "l", "i", "e", "r", "'", "]">>>>,
     <<<<"h", "t", "m", "l", " ", ">", " ", "b", "o", "d", "y", " ", ">", " ", "d", "i", "v", ":", "n", "t", "h", "-", "c", "h", "i", "l", "d", "(", "1", ")", " ", ">", " ", "s", "p", "a", "n">>>> >>

MaxSelectors == 3

\* the lists handed to testReordering: up to MaxSelectors of the test's
\* selectors in any order
SelectorLists ==
  UNION {[1..n -> {mockSelectors[k] : k \in 1..Len(mockSelectors)}] :
         n \in 0..MaxSelectors}

Token_a1b2c3d4e5 == <<"a", "1", "b", "2", "c", "3", "d", "4", "e", "5">>
Token_submit_button == <<"s", "u", "b", "m", "i", "t", "-", "b", "u", "t", "t", "o", "n">>

\* the elements recorded: attribute values are <<>> when the attribute is
\* absent; scopedPath, cssPath and xpath are the paths the DOM walks give
BuilderElements ==
  {[found |-> TRUE, visible |-> TRUE, tagName |-> tagName, text |-> text,
    accessibleName |-> accessibleName, testid |-> testid, cy |-> cy,
    test |-> <<>>, name |-> name, placeholder |-> placeholder, id |-> id,
    scopedPath |-> scopedPath, cssPath |-> cssPath,
    xpath |-> <<"/", "h", "t", "m", "l", "/", "b", "o", "d", "y", "/", "d", "i", "v", "/", "s", "p", "a", "n", "[", "2", "]">>,
    className |-> "string", parentNode |-> TRUE] :
     tagName \in {<<"I", "N", "P", "U", "T">>},
     text \in {<<>>, <<"S", "a", "v", "e">>},
     accessibleName \in {<<>>, <<"S", "u", "p", "p", "l", "i", "e", "r">>, <<"c", "l", "o", "s", "e">>},
     testid \in {<<>>, <<"s", "u", "p", "p", "l", "i", "e", "r", "-", "i", "d">>, <<"r", "o", "w", "-", "u", "u", "i", "d", "-", "7">>},
     cy \in {<<>>, <<"s", "a", "v", "e">>},
     name \in {<<>>, <<"e", "m", "a", "i", "l">>, <<"f", "i", "e", "l", "d", "1", "2", "3", "4", "5", "6">>},
     placeholder \in {<<>>, <<"S", "e", "a", "r", "c", "h">>, <<"O", "r", "d", "e", "r", " ", "1", "2", "3", "4", "5", "6", "7">>},
     id \in {<<>>, Token_submit_button, Token_a1b2c3d4e5, <<"e", "l", "-", "9", "8", "7", "6", "5">>},
     scopedPath \in {<<"f", "o", "r", "m", " ", ">", " ", "i", "n", "p", "u", "t">>, <<"d", "i", "v", " ", ">", " ", "s", "p", "a", "n", ":", "n", "t", "h", "-", "o", "f", "-", "t", "y", "p", "e", "(", "2", ")">>},
     cssPath \in {<<"f", "o", "r", "m", " ", ">", " ", "i", "n", "p", "u", "t">>, <<"h", "t", "m", "l", " ", ">", " ", "b", "o", "d", "y", " ", ">", " ", "d", "i", "v", ":", "n", "t", "h", "-", "c", "h", "i", "l", "d", "(", "1", ")", " ", ">", " ", "s", "p", "a", "n">>}}

\* elements without attributes and text that are SVG elements, whose
\* className is an SVGAnimatedString, or are detached from the document
UnusualElements ==
  LET bare == {b \in BuilderElements :
                 /\ b.text = <<>> /\ b.accessibleName = <<>> /\ b.testid = <<>>
                 /\ b.cy = <<>> /\ b.name = <<>> /\ b.placeholder = <<>>}
  IN {[e EXCEPT !.className = "SVGAnimatedString",
                !.tagName = <<"s", "v", "g">>] : e \in bare}
     \cup
     {[e EXCEPT !.parentNode = FALSE, !.xpath = <<>>] : e \in bare}

InitBuilder ==
  /\ InitRunner /\ InitRecorder
  /\ call \in
       {[fn |-> "generateSelectors", args |-> <<e>>, done |-> FALSE,
         result |-> <<>>] : e \in BuilderElements \cup UnusualElements}
       \cup
       {[fn |-> "testReordering", args |-> <<l>>, done |-> FALSE,
         result |-> <<>>] : l \in SelectorLists}

CallGenerateSelectors ==
  /\ call.fn = "generateSelectors"
  /\ ~call.done
  /\ call' = [call EXCEPT !.done = TRUE,
                          !.result = generateSelectors(call.args[1])]
  /\ UNCHANGED <<runnerVars, recorderVars>>

CallTestReordering ==
  /\ call.fn = "testReordering"
  /\ ~call.done
  /\ call' = [call EXCEPT !.done = TRUE,
                          !.result = testReordering(call.args[1])]
  /\ UNCHANGED <<runnerVars, recorderVars>>

NextBuilder == CallGenerateSelectors \/ CallTestReordering

SpecBuilder == InitBuilder /\ [][NextBuilder]_vars

\* the positions of a list that hold a selector containing :nth-
FragileAt(list) == {k \in 1..Len(list) : isFragile(list[k])}

\* fragile selectors come last and each group keeps the order it had
StablePartition(before, after) ==
  /\ \A i, j \in 1..Len(after) :
       i < j => ~(i \in FragileAt(after) /\ j \notin FragileAt(after))
  /\ SelectSeq(after, LAMBDA s : ~isFragile(s))
       = SelectSeq(before, LAMBDA s : ~isFragile(s))
  /\ SelectSeq(after, LAMBDA s : isFragile(s))
       = SelectSeq(before, LAMBDA s : isFragile(s))

\* C18: in every list generateSelectors returns, and in every list the
\* reordering test produces, no selector containing :nth- precedes one
\* without it, and the selectors without :nth- and the selectors with it
\* each keep the relative order they had before the last move.
C18_FragileLastStable ==
  /\ (call.fn = "generateSelectors" /\ call.done /\ ~call.result.thrown)
       => StablePartition(orderedSelectors(call.args[1]),
                          call.result.value.selectors)
  /\ (call.fn = "testReordering" /\ call.done)
       => StablePartition(call.args[1], call.result)

\* generateSelectors has moved a selector with :nth- behind a later one
\* without it, with two selectors in each group
C18_FragileMovedBehind ==
  /\ call.fn = "generateSelectors"
  /\ call.done
  /\ ~call.result.thrown
  /\ LET before == orderedSelectors(call.args[1])
     IN /\ \E i, j \in 1..Len(before) :
             i < j /\ i \in FragileAt(before) /\ j \notin FragileAt(before)
        /\ Cardinality(FragileAt(before)) >= 2
        /\ Cardinality((1..Len(before)) \ FragileAt(before)) >= 2
        /\ call.result.value.selectors # before


\* the strategies generateSelectors derives from the element's own
\* attribute values, each with the value it encodes
AttributeStrategies(element) ==
  {[value |-> element[testAttrs[k].field],
    selector |-> <<"[">> \o testAttrs[k].attr \o <<"=", "\\", "\"">>
                 \o escapeQuotes(element[testAttrs[k].field]) \o <<"\\", "\"", "]">>] :
     k \in 1..Len(testAttrs)}
  \cup
  {[value |-> element.name,
    selector |-> toLowerCase(element.tagName) \o <<"[", "n", "a", "m", "e", "=", "\\", "\"">>
                 \o escapeQuotes(element.name) \o <<"\\", "\"", "]">>],
   [value |-> element.placeholder,
    selector |-> <<"[", "p", "l", "a", "c", "e", "h", "o", "l", "d", "e", "r", "=", "\\", "\"">> \o escapeQuotes(element.placeholder)
                 \o <<"\\", "\"", "]">>],
   [value |-> element.id,
    selector |-> <<"#">> \o CSSescape(element.id)]}

\* C19: every strategy in the list generateSelectors returns that encodes
\* the element's test attribute, name, placeholder or id encodes a value
\* that isDynamic classifies as not dynamic.
C19_AttributeStrategiesStable ==
  (call.fn = "generateSelectors" /\ call.done /\ ~call.result.thrown)
  => \A a \in AttributeStrategies(call.args[1]) :
       (\E k \in 1..Len(call.result.value.selectors) :
          call.result.value.selectors[k] = <<a.selector>>)
       => ~isDynamic(a.value)


\* C21: for every element handed to generateSelectors the call returns an
\* object, and the object's selector list holds at least one selector.
C21_AlwaysAStrategy ==
  (call.fn = "generateSelectors" /\ call.done)
  => /\ ~call.result.thrown
     /\ Len(call.result.value.selectors) >= 1

\* ---------------------------------------------------------------------
\* The classifiers applied to tokens
\* ---------------------------------------------------------------------

MaxDigits == 6

DigitRun(n) == [i \in 1..n |-> <<"1", "2", "3", "4", "5", "6", "7", "8", "9", "0">>[((i - 1) % 10) + 1]]

\* tokens classified: an optional prefix before a body
TokenPrefixes ==
  {<<>>, <<"m", "u", "i", "-">>, <<"b", "t", "n", "-">>, <<"n", "a", "v", "-">>, <<"l", "i", "s", "t", "-">>,
   <<"i", "t", "e", "m", "-">>, <<"c", "e", "l", "l", "-">>, <<"B", "T", "N", "-">>, <<"x", "-">>}

TokenBodies ==
  {Token_a1b2c3d4e5, Token_submit_button, <<"u", "u", "i", "d">>, <<"R", "a", "n", "d", "o", "m">>, <<"t", "e", "s", "t", "-", "i", "d">>,
   <<"l", "A", "I", "J", "g", "o">>, <<"0", "1", "2", "3", "4", "5", "6", "7", "8", "9", "a", "b", "c", "d", "e", "f">>}
  \cup {DigitRun(n) : n \in 0..MaxDigits}

Tokens == {p \o b : p \in TokenPrefixes, b \in TokenBodies}

InitClassify ==
  /\ InitRunner /\ InitRecorder
  /\ call \in {[fn |-> f, args |-> <<t>>, done |-> FALSE, result |-> FALSE] :
                 f \in {"isDynamic", "isDynamicId"}, t \in Tokens}

CallIsDynamic ==
  /\ call.fn = "isDynamic"
  /\ ~call.done
  /\ call' = [call EXCEPT !.done = TRUE, !.result = isDynamic(call.args[1])]
  /\ UNCHANGED <<runnerVars, recorderVars>>

CallIsDynamicId ==
  /\ call.fn = "isDynamicId"
  /\ ~call.done
  /\ call' = [call EXCEPT !.done = TRUE, !.result = isDynamicId(call.args[1])]
  /\ UNCHANGED <<runnerVars, recorderVars>>

NextClassify == CallIsDynamic \/ CallIsDynamicId

SpecClassify == InitClassify /\ [][NextClassify]_vars

\* C20: the classifier (isDynamic of the selector builder, isDynamicId of
\* the recorder) returns true, dynamic, for the token "a1b2c3d4e5" and
\* false, stable, for the token "submit-button".
C20_ClassifiesExampleTokens ==
  (call.fn \in {"isDynamic", "isDynamicId"} /\ call.done)
  => /\ call.args[1] = Token_a1b2c3d4e5 => call.result = TRUE
     /\ call.args[1] = Token_submit_button => call.result = FALSE


\* C20 as it holds: both classifiers return false, stable, for the tokens
\* "a1b2c3d4e5" (its digits never stand five, or four, in a row) and
\* "submit-button", and true, dynamic, for a token of five digits in a row.
C20_NoDigitRunIsStable ==
  (call.fn \in {"isDynamic", "isDynamicId"} /\ call.done)
  => /\ call.args[1] = Token_a1b2c3d4e5 => call.result = FALSE
     /\ call.args[1] = Token_submit_button => call.result = FALSE
     /\ call.args[1] = DigitRun(DigitRunLength) => call.result = TRUE

\* isDynamic has classified "a1b2c3d4e5" as stable
C20_HashLikeTokenStable ==
  /\ call.fn = "isDynamic"
  /\ call.done
  /\ call.args[1] = Token_a1b2c3d4e5
  /\ call.result = FALSE


\* ---------------------------------------------------------------------
\* Nuance detection (compareStates)
\* ---------------------------------------------------------------------

\* the style properties getElementState captures, in the order captured
StyleProps ==
  <<"color", "backgroundColor", "fontSize", "fontWeight", "display",
    "visibility", "opacity">>

\* the attributes getElementState captures, in the order captured
StateAttributes == <<"aria-label", "title", "placeholder", "name">>

PositionTolerance == 20
SizeTolerance == 10

Abs(n) == IF n < 0 THEN -n ELSE n

\* Math.round(Math.sqrt(n))
RoundSqrt(n) ==
  CHOOSE r \in 0..n : (2 * r - 1) * (2 * r - 1) <= 4 * n
                      /\ 4 * n < (2 * r + 1) * (2 * r + 1)

\* a null state
NoState ==
  [isNull |-> TRUE, rect |-> [x |-> 0, y |-> 0, width |-> 0, height |-> 0],
   styles |-> [p \in {} |-> ""], attributes |-> [a \in {} |-> ""],
   text |-> ""]

\* every style property counted as changed
styleChanged_Always(oldState, newState, prop) == TRUE

\* oldState.styles[prop] !== newState.styles[prop]
styleChanged(oldState, newState, prop) ==
  oldState.styles[prop] # newState.styles[prop]

\* the nuances of the properties of oldState.styles from the k-th on
RECURSIVE styleNuances(_, _, _)
styleNuances(oldState, newState, k) ==
  IF k > Len(StyleProps) THEN <<>>
  ELSE (IF /\ StyleProps[k] \in DOMAIN oldState.styles
           /\ styleChanged(oldState, newState, StyleProps[k])
          THEN <<[kind |-> "Style", name |-> StyleProps[k],
                  from |-> oldState.styles[StyleProps[k]],
                  to |-> newState.styles[StyleProps[k]]]>>
          ELSE <<>>)
       \o styleNuances(oldState, newState, k + 1)

RECURSIVE attributeNuances(_, _, _)
attributeNuances(oldState, newState, k) ==
  IF k > Len(StateAttributes) THEN <<>>
  ELSE (IF /\ StateAttributes[k] \in DOMAIN oldState.attributes
           /\ oldState.attributes[StateAttributes[k]]
                # newState.attributes[StateAttributes[k]]
          THEN <<[kind |-> "Attribute", name |-> StateAttributes[k],
                  from |-> oldState.attributes[StateAttributes[k]],
                  to |-> newState.attributes[StateAttributes[k]]]>>
          ELSE <<>>)
       \o attributeNuances(oldState, newState, k + 1)

\* compareStates: each nuance is the message pushed, kept as its parts
compareStates(oldState, newState) ==
  IF oldState.isNull \/ newState.isNull THEN <<>>
  ELSE LET dx == Abs(oldState.rect.x - newState.rect.x)
           dy == Abs(oldState.rect.y - newState.rect.y)
       IN (IF dx > PositionTolerance \/ dy > PositionTolerance
             THEN <<[kind |-> "Position shifted", name |-> "px",
                     from |-> "", to |-> RoundSqrt(dx * dx + dy * dy)]>>
             ELSE <<>>)
          \o (IF \/ Abs(oldState.rect.width - newState.rect.width) > SizeTolerance
                 \/ Abs(oldState.rect.height - newState.rect.height) > SizeTolerance
                THEN <<[kind |-> "Size changed", name |-> "x",
                        from |-> <<oldState.rect.width, oldState.rect.height>>,
                        to |-> <<newState.rect.width, newState.rect.height>>]>>
                ELSE <<>>)
          \o styleNuances(oldState, newState, 1)
          \o attributeNuances(oldState, newState, 1)
          \o (IF oldState.text # newState.text
                THEN <<[kind |-> "Text changed", name |-> "",
                        from |-> oldState.text, to |-> newState.text]>>
                ELSE <<>>)


StylePropSet == {StyleProps[k] : k \in 1..Len(StyleProps)}

\* the two computed values each style property takes in the states compared
StyleValues ==
  [p \in StylePropSet |->
     CASE p = "color" -> <<"rgb(0, 0, 0)", "rgb(255, 0, 0)">>
       [] p = "backgroundColor" -> <<"rgb(255, 255, 255)", "rgba(0, 0, 0, 0)">>
       [] p = "fontSize" -> <<"14px", "16px">>
       [] p = "fontWeight" -> <<"400", "700">>
       [] p = "display" -> <<"block", "none">>
       [] p = "visibility" -> <<"visible", "hidden">>
       [] p = "opacity" -> <<"1", "0.5">>]

\* the styles in which the properties of restyled take their second value
StylesWith(restyled) ==
  [p \in StylePropSet |-> StyleValues[p][IF p \in restyled THEN 2 ELSE 1]]

\* the states getElementState captures: positions and widths on both
\* sides of the tolerances around the recorded (100, 80)
ElementStates ==
  {[isNull |-> FALSE,
    rect |-> [x |-> x, y |-> 0, width |-> width, height |-> 50],
    styles |-> StylesWith(restyled),
    attributes |-> [a \in {StateAttributes[k] : k \in 1..Len(StateAttributes)} |->
                      IF a = "title" THEN title ELSE "null"],
    text |-> text] :
     x \in {100, 100 + PositionTolerance, 101 + PositionTolerance},
     width \in {80, 80 + SizeTolerance, 81 + SizeTolerance},
     restyled \in SUBSET StylePropSet,
     title \in {"Save", "Save all"},
     text \in {"Save", "Saved"}}

\* the recorded states: the element at (100, 80) in black or red, or none
RecordedStates ==
  {s \in ElementStates :
     /\ s.rect.x = 100 /\ s.rect.width = 80
     /\ s.attributes["title"] = "Save" /\ s.text = "Save"
     /\ s.styles \in {StylesWith({}), StylesWith({"color"})}}
  \cup {NoState}

InitCompare ==
  /\ InitRunner /\ InitRecorder
  /\ call \in {[fn |-> "compareStates", args |-> <<old, new>>, done |-> FALSE,
                result |-> <<>>] :
                 old \in RecordedStates, new \in ElementStates \cup {NoState}}

CallCompareStates ==
  /\ call.fn = "compareStates"
  /\ ~call.done
  /\ call' = [call EXCEPT !.done = TRUE,
                          !.result = compareStates(call.args[1], call.args[2])]
  /\ UNCHANGED <<runnerVars, recorderVars>>

NextCompare == CallCompareStates

SpecCompare == InitCompare /\ [][NextCompare]_vars

\* the style properties whose value differs between two states
ChangedStyles(oldState, newState) ==
  {p \in StylePropSet : oldState.styles[p] # newState.styles[p]}

\* two states that differ in nothing but their styles
OnlyStylesDiffer(oldState, newState) ==
  /\ ~oldState.isNull /\ ~newState.isNull
  /\ oldState.rect = newState.rect
  /\ oldState.attributes = newState.attributes
  /\ oldState.text = newState.text

\* C22: compareStates returns the empty list for two identical states;
\* for two states differing only in styles it returns exactly one Style
\* nuance for each style property whose value differs and nothing else;
\* for two states differing only in color that is one nuance, naming
\* "color".
C22_OneNuancePerChangedStyle ==
  (call.fn = "compareStates" /\ call.done)
  => LET oldState == call.args[1]
         newState == call.args[2]
         nuances == call.result
     IN /\ (oldState = newState) => nuances = <<>>
        /\ OnlyStylesDiffer(oldState, newState)
           => /\ Len(nuances) = Cardinality(ChangedStyles(oldState, newState))
              /\ \A k \in 1..Len(nuances) : nuances[k].kind = "Style"
              /\ \A p \in ChangedStyles(oldState, newState) :
                   Cardinality({k \in 1..Len(nuances) : nuances[k].name = p}) = 1
              /\ ChangedStyles(oldState, newState) = {"color"}
                 => Len(nuances) = 1 /\ nuances[1].name = "color"

\* compareStates has compared two states differing only in color and has
\* returned the one nuance naming "color"
C22_ColorOnlyNuance ==
  /\ call.fn = "compareStates"
  /\ call.done
  /\ OnlyStylesDiffer(call.args[1], call.args[2])
  /\ ChangedStyles(call.args[1], call.args[2]) = {"color"}
  /\ Len(call.result) = 1
  /\ call.result[1].name = "color"


\* ---------------------------------------------------------------------
\* The choice among several matches of a CSS strategy
\* ---------------------------------------------------------------------

\* the element-location test's copy of the choice: the index of the
\* element chosen (0: undefined)
testLocateElement(elements, description) ==
  LET expectedText == trim(toLowerCase(description))
      visible == {k \in 1..Len(elements) : elements[k].visible}
      byText == IF Len(expectedText) > 2
                  THEN FirstOf({k \in visible :
                                  includes(trim(toLowerCase(elements[k].text)),
                                           expectedText)})
                  ELSE 0
  IN IF byText # 0 THEN byText
     ELSE IF visible # {} THEN FirstOf(visible)
     ELSE IF Len(elements) > 0 THEN 1 ELSE 0

MaxMatches == 3

\* the texts of the test's elements
MatchTexts == {<<"N", "o", "t", " ", "A", "p", "p", "l", "i", "c", "a", "b", "l", "e">>, <<"S", "u", "p", "p", "l", "i", "e", "r">>, <<"O", "t", "h", "e", "r">>}

\* the descriptions looked for
MatchDescriptions ==
  {<<>>, <<"O", "t">>, <<"S", "u", "p", "p", "l", "i", "e", "r">>, <<" ", "S", "U", "P", "P", "L", "I", "E", "R">>, <<"N", "o", "n", "E", "x", "i", "s", "t", "e", "n", "t">>}

\* up to MaxMatches spans, all matched by the step's one CSS strategy
MatchPages ==
  UNION {[1..n -> [found : {TRUE}, visible : BOOLEAN, matchedBy : {{1}},
                   matchedByTarget : {FALSE}, tag : {"span"},
                   text : MatchTexts]] : n \in 0..MaxMatches}

MatchSteps ==
  [selectors : {<<"css">>}, target : {""}, description : MatchDescriptions,
   malformed : {{}}, deepQuery : {"playback.js"}]

InitChoice ==
  /\ InitRunner /\ InitRecorder
  /\ call \in {[fn |-> f, args |-> <<s, p>>, done |-> FALSE, result |-> 0] :
                 f \in {"locateElement", "testLocateElement"},
                 s \in MatchSteps, p \in MatchPages}

CallTestLocateElement ==
  /\ call.fn = "testLocateElement"
  /\ ~call.done
  /\ call' = [call EXCEPT
                !.done = TRUE,
                !.result = testLocateElement(call.args[2], call.args[1].description)]
  /\ UNCHANGED <<runnerVars, recorderVars>>

NextChoice == CallLocateElement \/ CallTestLocateElement

SpecChoice == InitChoice /\ [][NextChoice]_vars

\* the description as compared: lower-cased and trimmed
ComparedDescription(step) == trim(toLowerCase(step.description))

\* the visible elements of the page
VisibleIn(page) == {k \in 1..Len(page) : page[k].visible}

\* the visible elements whose lower-cased, trimmed text equals or contains
\* the compared description
VisibleWithText(step, page) ==
  {k \in VisibleIn(page) :
     includes(trim(toLowerCase(page[k].text)), ComparedDescription(step))}

\* C24: when a CSS strategy matches several elements and the description
\* (lower-cased and trimmed, as the text it is compared with) is longer
\* than two characters, the element chosen is the first visible match whose
\* text equals or contains the description, also when visible matches
\* without that text come earlier; when no visible match has such text it
\* is the first visible match.
C24_TextMatchPreferred ==
  (call.fn \in {"locateElement", "testLocateElement"} /\ call.done)
  => LET step == call.args[1]
         page == call.args[2]
     IN Len(ComparedDescription(step)) > 2
        => /\ VisibleWithText(step, page) # {}
              => call.result = FirstOf(VisibleWithText(step, page))
           /\ (VisibleWithText(step, page) = {} /\ VisibleIn(page) # {})
              => call.result = FirstOf(VisibleIn(page))

\* locateElement has passed over an earlier visible match without the
\* text and chosen a later visible match containing the description
C24_LaterTextMatchChosen ==
  /\ call.fn = "locateElement"
  /\ call.done
  /\ Len(ComparedDescription(call.args[1])) > 2
  /\ VisibleWithText(call.args[1], call.args[2]) # {}
  /\ FirstOf(VisibleIn(call.args[2]))
       < FirstOf(VisibleWithText(call.args[1], call.args[2]))
  /\ call.result = FirstOf(VisibleWithText(call.args[1], call.args[2]))


\* ---------------------------------------------------------------------
\* The input step of executeSingleStep
\* ---------------------------------------------------------------------

\* the value sanitization of a single-line text input: line breaks are
\* stripped; a textarea keeps them
stripNewlines(value) == SelectSeq(value, LAMBDA c : c \notin {"\n", "\r"})

\* the native value setter left out
nativeInputValueSetter_Unset(element, value) == element.value

\* the value setter of the element's prototype, and the plain assignment
\* of the fallback: the DOM value the element has afterwards
nativeInputValueSetter(element, value) ==
  IF element.tagName = "INPUT" THEN stripNewlines(value) ELSE value

Value_alice == <<"a", "l", "i", "c", "e", "@", "e", "x", "a", "m", "p", "l", "e", ".", "c", "o", "m">>
Value_lines == <<"a", "\n", "b">>

\* the values typed into a control when the step was recorded
RecordedValues(tagName) ==
  IF tagName = "TEXTAREA" THEN {<<>>, Value_alice, Value_lines}
  ELSE {<<>>, Value_alice, <<"4", "2">>}

\* the elements an input step resolves to: a text input, a textarea, a
\* label with or without a text input as its control, a custom element
InputElements ==
  {[tagName |-> t, value |-> v, control |-> c] :
     t \in {"INPUT", "TEXTAREA", "DIV"}, v \in {<<>>, <<"o", "l", "d">>}, c \in {FALSE}}
  \cup
  {[tagName |-> "LABEL", value |-> v, control |-> c] :
     v \in {<<>>, <<"o", "l", "d">>}, c \in BOOLEAN}

\* the element the value is typed into: the control of a label that has one
inputControl(element) ==
  IF element.tagName = "LABEL" /\ element.control
    THEN [element EXCEPT !.tagName = "INPUT", !.control = FALSE]
    ELSE element

InitInput ==
  /\ InitRunner /\ InitRecorder
  /\ call \in UNION
       {{[fn |-> "executeSingleStep",
          args |-> <<[action |-> "input", value |-> v], e>>,
          done |-> FALSE,
          result |-> [phase |-> "located", element |-> e, events |-> <<>>]] :
           v \in RecordedValues(inputControl(e).tagName)} :
        e \in InputElements}

\* settle time, scrollIntoView, the redirect from a label to its control,
\* focus
InputFocus ==
  /\ call.fn = "executeSingleStep"
  /\ call.result.phase = "located"
  /\ call' = [call EXCEPT
                !.result = [phase |-> "focused",
                            element |-> inputControl(call.result.element),
                            events |-> Append(call.result.events, "focus")]]
  /\ UNCHANGED <<runnerVars, recorderVars>>

\* the value is set and the input and change events are dispatched
InputSetValue ==
  /\ call.fn = "executeSingleStep"
  /\ call.result.phase = "focused"
  /\ call' = [call EXCEPT
                !.result = [phase |-> "typed",
                            element |->
                              [call.result.element EXCEPT
                                 !.value = nativeInputValueSetter(
                                             call.result.element,
                                             call.args[1].value)],
                            events |-> call.result.events \o <<"input", "change">>]]
  /\ UNCHANGED <<runnerVars, recorderVars>>

\* the key events and the blur
InputKeyEvents ==
  /\ call.fn = "executeSingleStep"
  /\ call.result.phase = "typed"
  /\ call' = [call EXCEPT
                !.result = [@ EXCEPT
                              !.phase = "blurred",
                              !.events = call.result.events
                                         \o <<"keydown", "keyup", "blur">>]]
  /\ UNCHANGED <<runnerVars, recorderVars>>

\* the timer of the settle time fires: STEP_COMPLETE is sent
InputComplete ==
  /\ call.fn = "executeSingleStep"
  /\ call.result.phase = "blurred"
  /\ call' = [call EXCEPT
                !.done = TRUE,
                !.result = [@ EXCEPT
                              !.phase = "complete",
                              !.events = Append(call.result.events,
                                                "STEP_COMPLETE")]]
  /\ UNCHANGED <<runnerVars, recorderVars>>

NextInput == InputFocus \/ InputSetValue \/ InputKeyEvents \/ InputComplete

SpecInput == InitInput /\ [][NextInput]_vars

\* the positions of an event in the events observed
EventAt(events, name) == {k \in 1..Len(events) : events[k] = name}

\* C25: when an input step on a text control (a text input or a textarea,
\* also reached through its label) has reported completion, the control's
\* DOM value equals the step's value, and an input event and after it a
\* change event were dispatched on the control before STEP_COMPLETE.
C25_ValueSetBeforeComplete ==
  (/\ call.fn = "executeSingleStep"
   /\ EventAt(call.result.events, "STEP_COMPLETE") # {}
   /\ call.result.element.tagName \in {"INPUT", "TEXTAREA"})
  => /\ call.result.element.value = call.args[1].value
     /\ \E i \in EventAt(call.result.events, "input") :
          \E j \in EventAt(call.result.events, "change") :
            /\ i < j
            /\ \A k \in EventAt(call.result.events, "STEP_COMPLETE") : j < k

\* the step has typed the e-mail address into a text input that held
\* another value and has reported completion
C25_AddressTypedAndReported ==
  /\ call.fn = "executeSingleStep"
  /\ call.done
  /\ call.args[2].tagName = "INPUT"
  /\ call.args[2].value # call.args[1].value
  /\ call.args[1].value = Value_alice
  /\ call.result.element.value = Value_alice
  /\ call.result.events[Len(call.result.events)] = "STEP_COMPLETE"


\* ---------------------------------------------------------------------
\* Resolution repeated against an unchanged document
\* ---------------------------------------------------------------------

\* a resolution that gives up once a success has been logged
resolveWithLogs_OncePerLog(step, page, logs) ==
  IF logs > 0 THEN 0 ELSE locateElement(step, page)

\* locateElement in the state resolution leaves behind: the number of
\* entries logSelectorSuccess has pushed to e2e_debug_logs, which no
\* strategy reads
resolveWithLogs(step, page, logs) == locateElement(step, page)

\* logSelectorSuccess: one entry for an element found by a strategy
logsAfter(step, page, logs) ==
  IF locateElementWithSelectorArray(ArrayStep(step), ArrayPage(step, page)) # 0
    THEN logs + 1 ELSE logs

InitRepeat ==
  /\ InitRunner /\ InitRecorder
  /\ call \in {[fn |-> "locateElement twice", args |-> <<s, p>>, done |-> FALSE,
                result |-> [calls |-> 0, first |-> 0, second |-> 0, logs |-> 0]] :
                 s \in MatchSteps, p \in MatchPages}

\* locateElement(step), the first time
ResolveFirst ==
  /\ call.fn = "locateElement twice"
  /\ call.result.calls = 0
  /\ call' = [call EXCEPT
                !.result = [calls |-> 1,
                            first |-> resolveWithLogs(call.args[1], call.args[2],
                                                      call.result.logs),
                            second |-> 0,
                            logs |-> logsAfter(call.args[1], call.args[2],
                                               call.result.logs)]]
  /\ UNCHANGED <<runnerVars, recorderVars>>

\* locateElement(step) again, the document unchanged
ResolveSecond ==
  /\ call.fn = "locateElement twice"
  /\ call.result.calls = 1
  /\ call' = [call EXCEPT
                !.done = TRUE,
                !.result = [calls |-> 2,
                            first |-> call.result.first,
                            second |-> resolveWithLogs(call.args[1], call.args[2],
                                                       call.result.logs),
                            logs |-> logsAfter(call.args[1], call.args[2],
                                               call.result.logs)]]
  /\ UNCHANGED <<runnerVars, recorderVars>>

NextRepeat == ResolveFirst \/ ResolveSecond

SpecRepeat == InitRepeat /\ [][NextRepeat]_vars

C27_AllowListFirst ==
  (call.fn = "isDynamic" /\ call.done)
  => ((\E p \in {<<"m", "u", "i", "-">>, <<"b", "t", "n", "-">>, <<"n", "a", "v", "-">>, <<"l", "i", "s", "t", "-">>, <<"i", "t", "e", "m", "-">>, <<"c", "e", "l", "l", "-">>} :
         startsWith(call.args[1], p))
      => call.result = FALSE)

\* isDynamic has classified "mui-" followed by a run of five digits, and
\* "item-uuid", as not dynamic
C27_PrefixedDigitsStable ==
  /\ call.fn = "isDynamic"
  /\ call.done
  /\ call.args[1] \in {<<"m", "u", "i", "-">> \o DigitRun(DigitRunLength), <<"i", "t", "e", "m", "-", "u", "u", "i", "d">>}
  /\ call.result = FALSE


\* ------------------------------------------------ load-complete and clicks
\* the step at index of the run has been sent to the frames: its dispatch
\* is past the awaits of executeCurrentStep and its broadcast loop has
\* sent EXECUTE_SINGLE_STEP at least once
SentToFrames(index) ==
  /\ dispatches[index] > 0
  /\ \A c \in conts : c.index # index
  /\ \A l \in loops : l.index = index => l.sendAttempts > 0

\* the load-complete event moves the cursor past a click step
LoadPassesClick ==
  /\ loading /\ ~loading'
  /\ Running
  /\ Cursor < Len(executionState.steps)
  /\ executionState.steps[Cursor + 1].action = "click"
  /\ executionState'.currentIndex = Cursor + 1

\* C28: when a load-complete event moves the cursor past a click step, that
\* click is the one the load belongs to: the step has been sent to the
\* frames and its click starts a page load.  A load started by an earlier
\* step never passes a click that no frame has acted on.
C28_LoadBelongsToClick ==
  [][LoadPassesClick =>
       /\ SentToFrames(Cursor)
       /\ executionState.steps[Cursor + 1].loads]_vars


\* ------------------------------------------------ a second run
\* the flows of the first run: one click, which resolves in frame 1, in no
\* frame, or resolves and starts a page load
OldFlows ==
  {<<Step("click", 1, FALSE, FALSE, FALSE)>>,
   <<Step("click", 0, FALSE, FALSE, FALSE)>>,
   <<Step("click", 1, TRUE, FALSE, FALSE)>>}

\* the flow of the second run: one input step, which resolves in frame 2
NewFlows == {<<Step("input", 2, FALSE, FALSE, TRUE)>>}

\* START_EXECUTION is handled whenever it arrives: a first run, then a
\* second one started at any moment after it, over whatever the first run
\* left pending
NextRerun ==
  \/ \E flow \in OldFlows :
       runs = 0 /\ StartExecution(flow, FALSE) /\ UNCHANGED <<shown, call, recorderVars>>
  \/ \E flow \in NewFlows :
       runs = 1 /\ StartExecution(flow, FALSE) /\ UNCHANGED <<shown, call, recorderVars>>
  \/ Callbacks

SpecRerun == Init /\ [][NextRerun]_vars

\* the current run has sent the step at index to the frames
SentByRun(index) ==
  /\ dispatches[index] > 0
  /\ \A c \in conts : ~(c.run = runs /\ c.index = index)
  /\ \A l \in loops : (l.run = runs /\ l.index = index) => l.sendAttempts > 0

\* a message from a frame is handled and moves the cursor or ends the run
MessageActs ==
  /\ \E f \in Frames : queue[f] # <<>> /\ queue'[f] = Tail(queue[f])
  /\ Running
  /\ (executionState'.currentIndex # Cursor \/ ~executionState'.isRunning)

\* a broadcast loop or a suspended executeCurrentStep of an earlier run
\* goes on: the loop hands its step to the frames or ends the run, the
\* suspended dispatch starts its broadcast loop
OldClosureActs ==
  \/ \E l \in loops : /\ l.run < runs
                      /\ l.ph = "await"
                      /\ l \notin loops'
                      /\ (acts' # acts \/ cei' # cei \/ queue' # queue
                          \/ (Running /\ ~executionState'.isRunning))
  \/ \E c \in conts : /\ c.run < runs
                      /\ c \notin conts'
                      /\ loops' # loops

\* C29: once a second run has been started, what the first run left
\* pending has no effect on it: a message from a frame moves the cursor or
\* ends the run only if the second run has sent its step at the cursor to
\* the frames, and no broadcast loop or suspended dispatch of the first run
\* sends its step, starts a loop or ends the run.
C29_OldRunIsInert ==
  [][(runs = 2 /\ runs' = 2)
       => /\ MessageActs => SentByRun(Cursor)
          /\ ~OldClosureActs]_vars


\* ------------------------------------------------ terminal reports
\* the terminal status updates sent in run r (r = 0: before any run)
ReportsOf(r) == {k \in DOMAIN statusUpdates : statusUpdates[k].run = r}

\* C30: every started run produces exactly one terminal status update: no
\* update is sent before a run is started, no run has two, and a run that
\* is no longer active has one.
C30_OneReportPerRun ==
  /\ ReportsOf(0) = {}
  /\ \A r \in 1..runs : Cardinality(ReportsOf(r)) <= 1
  /\ (runs > 0 /\ ~Running) => Cardinality(ReportsOf(runs)) = 1


\* ------------------------------------------------ a target rendered late
\* the flows replayed on a page that renders late: one click or one input
AppearFlows ==
  {<<Step("click", 1, FALSE, FALSE, FALSE)>>,
   <<Step("click", 1, TRUE, FALSE, FALSE)>>,
   <<Step("input", 2, FALSE, FALSE, TRUE)>>}

\* the page renders the targets of the steps: from now on locateElement
\* finds them and isElementVisible holds
Appear ==
  /\ ~shown
  /\ shown' = TRUE
  /\ UNCHANGED <<executionState, lastExecutionStatus, stored, timers,
                 pendingExec, conts, loops, fins, cei, acts, queue, loading,
                 statusUpdates, navigations, dispatches, runs, restarts, stops>>

\* a run on a page that has not rendered the targets yet
InitAppear ==
  InitCoordinator /\ InitRecorder /\ shown = FALSE /\ call = NoCall

\* one run of a flow; the targets are rendered at any moment of the run
NextAppear ==
  \/ \E flow \in AppearFlows :
       runs = 0 /\ StartExecution(flow, FALSE) /\ UNCHANGED <<shown, call, recorderVars>>
  \/ Appear /\ UNCHANGED <<call, recorderVars>>
  \/ Callbacks

SpecAppear == InitAppear /\ [][NextAppear]_vars

\* frame f is searching for the step at index, has reported on it, or
\* will start searching at the next broadcast of the step
SearchingOrDone(f, index) ==
  \/ \E a \in acts : a.frame = f /\ a.index = index
  \/ \E k \in DOMAIN queue[f] :
       queue[f][k].stepIndex = index /\ queue[f][k].type # "BUG_DETECTED"
  \/ ~SkipsStep(cei, f, index)

\* the step at the cursor is pending: the run is active and the broadcast
\* loop of the step has a broadcast still to come
PendingStep(index) ==
  /\ Running
  /\ Cursor = index
  /\ index < Len(executionState.steps)
  /\ \E l \in loops : l.run = runs /\ l.index = index

\* C31: while the step at the cursor is pending and its target is visible
\* in a frame, that frame is searching for it (and so goes on to perform
\* the action and report), or starts to at the next broadcast: the
\* repeated broadcasts keep the frame searching.
C31_BroadcastsKeepFramesSearching ==
  \A f \in Frames, index \in StepIndexes :
    (PendingStep(index) /\ Resolves(executionState.steps[index + 1], f))
      => SearchingOrDone(f, index)


\* ------------------------------------------------ runs of a saved test
\* the flows of the saved tests replayed: one click, which resolves in
\* frame 1, in no frame, or resolves and starts a page load
ReportFlows ==
  {<<Step("click", 1, FALSE, FALSE, FALSE)>>,
   <<Step("click", 0, FALSE, FALSE, FALSE)>>,
   <<Step("click", 1, TRUE, FALSE, FALSE)>>}

\* one run of a saved test (its id is set, so finishExecution posts the
\* execution report before it saves the state); the service worker may be
\* restarted
NextReport ==
  \/ \E flow \in ReportFlows :
       runs = 0 /\ StartExecution(flow, TRUE) /\ UNCHANGED <<shown, call, recorderVars>>
  \/ \E s \in fins : FinishReported(s) /\ UNCHANGED <<shown, call, recorderVars>>
  \/ Restart /\ UNCHANGED <<shown, call, recorderVars>>
  \/ Callbacks

SpecReport == Init /\ [][NextReport]_vars

\* the persisted run state records a run that is not active
StoredAsEnded == stored = <<>> \/ ~stored[1].es.isRunning

\* C32: from the moment a run has sent its terminal status update, the
\* persisted run state records it as not running, so that a restart of the
\* service worker neither resumes it nor shows it as running.
C32_EndedRunStoredAsEnded ==
  (statusUpdates # <<>>) => (StoredAsEnded /\ (restarts > 0 => ~Running))


\* ------------------------------------------------ error reports
\* the STEP_ERROR at the head of frame f's queue is handled and ends the run
ErrorEndsRun(f) ==
  /\ queue[f] # <<>>
  /\ Head(queue[f]).type = "STEP_ERROR"
  /\ queue' = [queue EXCEPT ![f] = Tail(@)]
  /\ Running
  /\ ~executionState'.isRunning

\* C33: a STEP_ERROR from a frame ends the run only if it carries the index
\* of the step at the cursor; one that names a step the cursor has passed
\* leaves the run active.
C33_ErrorOnlyForCursorStep ==
  [][\A f \in Frames :
       ErrorEndsRun(f) => Head(queue[f]).stepIndex = Cursor]_vars


\* ------------------------------------------------ termination
\* one run of a flow, left to itself
NextLive ==
  \/ \E flow \in Flows :
       runs = 0 /\ StartExecution(flow, FALSE) /\ UNCHANGED <<shown, call, recorderVars>>
  \/ Callbacks

\* every callback handed to setTimeout is run in the end: the step timer,
\* the delayed executeCurrentStep, the next round of the broadcast loop.
\* Frame replies, page loads and the awaited browser calls come when they
\* come, or never.
TimersFire ==
  /\ WF_vars(DelayedExecute /\ UNCHANGED <<shown, call, recorderVars>>)
  /\ \A index \in StepIndexes :
       WF_vars(StepTimeout(index) /\ UNCHANGED <<shown, call, recorderVars>>)
  /\ WF_vars(\E l \in loops : LoopWake(l) /\ UNCHANGED <<shown, call, recorderVars>>)

SpecLive == Init /\ [][NextLive]_vars /\ TimersFire

\* C34: a run that has been started ends: from every state in which the
\* run is active a state is reached in which it is not, its terminal
\* status update sent.
C34_RunTerminates ==
  Running ~> (~Running /\ ReportsOf(runs) # {})

\* a run whose frames never answered has been ended by its step timer
\* while its broadcast loop was still going
C34_EndedByTimerAlone ==
  /\ runs = 1
  /\ ~Running
  /\ \E u \in Reports : u.error = TimeoutError(0)
  /\ loops # {}
  /\ \A f \in Frames : queue[f] = <<>>
  /\ acts = {}


\* ------------------------------------------------ the cursor
\* C35: the cursor stays within 0 .. number of steps of the flow, and
\* while the run is active it never decreases.
C35_CursorInRangeAndMonotone ==
  /\ [](Cursor >= 0 /\ Cursor <= Len(executionState.steps))
  /\ [][(Running /\ executionState'.isRunning)
          => executionState'.currentIndex >= Cursor]_vars

\* a load-complete has moved the cursor of an active run to the end of a
\* flow of two steps
C35_CursorAtEndByLoad ==
  /\ Running
  /\ Len(executionState.steps) = 2
  /\ Cursor = 2
  /\ pendingExec > 0
  /\ dispatches[1] = 1
  /\ \A f \in Frames : queue[f] = <<>>
  /\ executionState.steps[2].at = 0


\* ------------------------------------------------ the bug list
\* the bug list of the run state
Bugs == executionState.detectedBugs

\* a BUG_DETECTED message at the head of frame f's queue is handled
BugHandled(f) ==
  /\ queue[f] # <<>>
  /\ Head(queue[f]).type = "BUG_DETECTED"
  /\ queue' = [queue EXCEPT ![f] = Tail(@)]

\* C36: the bug list is append-only for the duration of a run: a start
\* empties it; any other change appends one entry at its end, so that no
\* entry is removed or altered; a bug reported by a frame while the run is
\* active is appended, in the order of arrival, and one reported when no
\* run is active is discarded.
C36_BugListAppendOnly ==
  [][/\ (runs' # runs) => executionState'.detectedBugs = <<>>
     /\ (runs' = runs /\ executionState'.detectedBugs # Bugs)
          => /\ Len(executionState'.detectedBugs) = Len(Bugs) + 1
             /\ SubSeq(executionState'.detectedBugs, 1, Len(Bugs)) = Bugs
     /\ \A f \in Frames :
          BugHandled(f)
          => executionState'.detectedBugs =
               IF Running
                 THEN Append(Bugs, [stepIndex |-> Head(queue[f]).stepIndex,
                                    type |-> Head(queue[f]).info,
                                    message |-> Head(queue[f]).info])
                 ELSE Bugs]_vars

\* a second run, started after a run that reported a bug, holds exactly the
\* nuance reported to it
C36_SecondRunHoldsItsNuance ==
  /\ runs = 2
  /\ Running
  /\ \E u \in Reports : u.run = 1 /\ u.bugs # <<>>
  /\ Bugs = <<[stepIndex |-> 0, type |-> "nuance", message |-> "nuance"]>>


\* ------------------------------------------------ displaced elements
\* displacements on either axis, in px, around the tolerance
ShiftOffsets == {-21, -20, -15, 0, 12, 15, 16, 20, 21}

\* the recorded state of an element at (100, 80)
ShiftRecorded ==
  [isNull |-> FALSE,
   rect |-> [x |-> 100, y |-> 80, width |-> 80, height |-> 50],
   styles |-> StylesWith({}),
   attributes |-> [a \in {StateAttributes[k] : k \in 1..Len(StateAttributes)} |-> "null"],
   text |-> "Save"]

\* the same element, displaced
ShiftedStates ==
  {[ShiftRecorded EXCEPT !.rect.x = @ + dx, !.rect.y = @ + dy] :
     dx \in ShiftOffsets, dy \in ShiftOffsets}

InitShift ==
  /\ InitRunner /\ InitRecorder
  /\ call \in {[fn |-> "compareStates", args |-> <<ShiftRecorded, new>>,
                done |-> FALSE, result |-> <<>>] : new \in ShiftedStates}

NextShift == CallCompareStates

SpecShift == InitShift /\ [][NextShift]_vars

\* the square of the Euclidean distance between the positions of two states
SquaredDistance(oldState, newState) ==
  (oldState.rect.x - newState.rect.x) * (oldState.rect.x - newState.rect.x)
  + (oldState.rect.y - newState.rect.y) * (oldState.rect.y - newState.rect.y)

\* the result holds a position nuance
PositionNuance(result) ==
  \E k \in DOMAIN result : result[k].kind = "Position shifted"

\* C37: compareStates reports a position nuance exactly when the Euclidean
\* distance between the old and the new position exceeds 20 px.
C37_PositionNuanceByDistance ==
  (call.fn = "compareStates" /\ call.done)
  => (PositionNuance(call.result)
      <=> SquaredDistance(call.args[1], call.args[2])
            > PositionTolerance * PositionTolerance)


\* ------------------------------------------------ the click point
\* a numeric field of a step: <<>> when the step has none (undefined),
\* <<n>> when it holds the number n.  a || b of JavaScript on such a field:
\* b when the field is undefined or holds 0, the number otherwise
OrElse(field, fallback) ==
  IF field = <<>> \/ field = <<0>> THEN fallback ELSE field[1]

\* executeSingleStep, click branch: the events dispatched on the element,
\* with the coordinates computed from the step's offset and the element's
\* bounding box (widths and heights are even, so that the half is whole)
clickEvents(step, rect) ==
  LET clientX == rect.left + OrElse(step.offsetX, rect.width \div 2)
      clientY == rect.top + OrElse(step.offsetY, rect.height \div 2)
      event(type) == [type |-> type, clientX |-> clientX, clientY |-> clientY]
  IN <<event("pointerdown"), event("mousedown"), event("pointerup"),
       event("mouseup"), event("click")>>

\* the offsets recorder.js stores, Math.round(event.clientX - rect.left),
\* and none for steps recorded without
Offsets == {<<>>, <<0>>, <<1>>, <<7>>, <<40>>}

ClickSteps == [offsetX : Offsets, offsetY : Offsets]

ClickRects ==
  [left : {0, 100}, top : {0, 250}, width : {80}, height : {20}]

InitClick ==
  /\ InitRunner /\ InitRecorder
  /\ call \in {[fn |-> "click", args |-> <<step, rect>>, done |-> FALSE,
                result |-> <<>>] : step \in ClickSteps, rect \in ClickRects}

CallClick ==
  /\ call.fn = "click"
  /\ ~call.done
  /\ call' = [call EXCEPT !.done = TRUE,
                          !.result = clickEvents(call.args[1], call.args[2])]
  /\ UNCHANGED <<runnerVars, recorderVars>>

NextClick == CallClick

SpecClick == InitClick /\ [][NextClick]_vars

\* the coordinate on one axis the claim asks for: origin + offset when an
\* offset was recorded, the centre when none was
ExpectedCoordinate(origin, extent, offset) ==
  IF offset = <<>> THEN origin + extent \div 2 ELSE origin + offset[1]

\* C38: for a click step with a recorded offset (x, y) every dispatched
\* pointer and mouse event carries the coordinates bounding-box origin +
\* (x, y), for every recorded value, 0 included; the centre of the element
\* is used only on an axis for which no offset was recorded.
C38_OffsetDecidesCoordinates ==
  (call.fn = "click" /\ call.done)
  => \A k \in DOMAIN call.result :
       LET step == call.args[1]
           rect == call.args[2]
       IN /\ call.result[k].clientX =
               ExpectedCoordinate(rect.left, rect.width, step.offsetX)
          /\ call.result[k].clientY =
               ExpectedCoordinate(rect.top, rect.height, step.offsetY)


\* ------------------------------------------------ bucket priority
\* the kind of a strategy, read off its value, as a rank in the priority
\* order: test attribute 1, name 2, placeholder 3, id 4, aria 5, other CSS
\* 6, XPath 7
KindRank(sel) ==
  IF isAria(sel) THEN 5
  ELSE IF isXpath(sel) THEN 7
  ELSE IF isId(sel) THEN 4
  ELSE IF hasDataAttr(sel) THEN 1
  ELSE IF hasName(sel) THEN 2
  ELSE IF hasPlaceholder(sel) THEN 3
  ELSE 6

\* the strategies of a list without :nth-, in their order
NonPositional(list) == SelectSeq(list, LAMBDA s : ~isFragile(s))

MaxRecorded == 2

\* flows the popup asks the backend to save in all
MaxSaves == 1

\* the n-th step recorded: it has no step_order (0) until it has been a row
RecordedStep(n) == [action |-> n, step_order |-> 0]

\* an array element that was never set; null once it has crossed a message
\* or a request body
Undefined == [action |-> 0, step_order |-> 0]

\* array[index], 0-based
At(array, index) ==
  IF index >= 0 /\ index < Len(array) THEN array[index + 1] ELSE Undefined

\* array[index] = value, 0-based: an index past the end lengthens the array
Put(array, index, value) ==
  [i \in 1..(IF index + 1 > Len(array) THEN index + 1 ELSE Len(array)) |->
     IF i = index + 1 THEN value
     ELSE IF i <= Len(array) THEN array[i] ELSE Undefined]

\* array.splice(index, 1)
Splice(array, index) ==
  [i \in 1..(IF index < Len(array) THEN Len(array) - 1 ELSE Len(array)) |->
     IF i <= index THEN array[i] ELSE array[i + 1]]

\* renderSteps throws at the first element that is undefined (step.action)
RenderThrows(steps) == \E i \in 1..Len(steps) : steps[i] = Undefined

\* the rows renderSteps has put in the table: those before the throw
RenderedRows(steps) ==
  {i \in 0..(Len(steps) - 1) : \A j \in 1..(i + 1) : steps[j] # Undefined}

\* syncStepsToBackground, and the background's onMessage RECORD_STEP with
\* sync: the messages of the popup are handled in the order they were sent
\* and nothing of the popup depends on when, so each is handled as it is sent
syncStepsToBackground(steps) == currentTestCase' = [steps |-> steps]

\* a button handler that ends with renderSteps(currentSteps);
\* syncStepsToBackground(): the throw of renderSteps ends the handler
RenderAndSync(steps) ==
  IF RenderThrows(steps) THEN UNCHANGED currentTestCase
  ELSE syncStepsToBackground(steps)

\* the mapped rows of the INSERT statement (mutant: the step_order the step
\* came with is kept)
commandRows_Kept(testId, steps) ==
  [i \in 1..Len(steps) |->
     [test_id |-> testId, step_order |-> steps[i].step_order,
      command |-> steps[i].action]]

\* steps.map((s, i) => [testId, i + 1, s.action || s.command, ...])
commandRows(testId, steps) ==
  [i \in 1..Len(steps) |->
     [test_id |-> testId, step_order |-> i, command |-> steps[i].action]]

\* s.action of a null element throws: the transaction is rolled back
MapThrows(steps) == \E i \in 1..Len(steps) : steps[i] = Undefined

\* POST /api/test-cases
PostTestCase(steps) ==
  IF MapThrows(steps) THEN UNCHANGED <<commands, tests>>
  ELSE LET testId == Cardinality(tests) + 1
       IN /\ tests' = tests \cup {testId}
          /\ commands' = commands \o commandRows(testId, steps)

\* SELECT * FROM commands WHERE test_id = ? ORDER BY step_order ASC
RECURSIVE OrderedByStepOrder(_)
OrderedByStepOrder(rows) ==
  IF rows = <<>> THEN <<>>
  ELSE LET least == CHOOSE i \in 1..Len(rows) :
                      \A j \in 1..Len(rows) :
                        \/ rows[i].step_order < rows[j].step_order
                        \/ rows[i].step_order = rows[j].step_order /\ i <= j
       IN <<rows[least]>> \o
          OrderedByStepOrder([k \in 1..(Len(rows) - 1) |->
                                IF k < least THEN rows[k] ELSE rows[k + 1]])

CommandsOf(testId) ==
  OrderedByStepOrder(SelectSeq(commands, LAMBDA r : r.test_id = testId))

\* GET /api/test-cases/:id: the steps are the rows, step_order included
mappedSteps(testId) ==
  [i \in 1..Len(CommandsOf(testId)) |->
     [action |-> CommandsOf(testId)[i].command,
      step_order |-> CommandsOf(testId)[i].step_order]]

\* PUT /api/tests/:id, its body the steps of some list
PutTest(testId, steps) ==
  /\ testId \in tests
  /\ commands' =
       IF MapThrows(steps) THEN commands
       ELSE SelectSeq(commands, LAMBDA r : r.test_id # testId)
              \o commandRows(testId, steps)
  /\ UNCHANGED <<currentSteps, selectedStepIndex, currentTestCase,
                 isRecording, toPopup, tests, recorded, saves>>
  /\ UNCHANGED <<runnerVars, call>>

\* onRecordClick, not recording: renderSteps([]); onMessage START_RECORDING
\* with the start step that its tabs.query callback pushes
StartRecordingClick ==
  /\ ~isRecording /\ recorded < MaxRecorded
  /\ currentSteps' = <<>>
  /\ isRecording' = TRUE
  /\ recorded' = recorded + 1
  /\ currentTestCase' = [steps |-> <<RecordedStep(recorded')>>]
  /\ toPopup' = Append(toPopup, [type |-> "STEP_RECORDED",
                                 step |-> RecordedStep(recorded')])
  /\ UNCHANGED <<selectedStepIndex, commands, tests, saves>>
  /\ UNCHANGED <<runnerVars, call>>

\* onRecordClick, recording: onMessage STOP_RECORDING and its response
StopRecordingClick ==
  /\ isRecording /\ saves < MaxSaves
  /\ saves' = saves + 1
  /\ isRecording' = FALSE
  /\ toPopup' = Append(toPopup, [type |-> "STOPPED",
                                 testCase |-> currentTestCase])
  /\ UNCHANGED <<currentSteps, selectedStepIndex, currentTestCase, commands,
                 tests, recorded>>
  /\ UNCHANGED <<runnerVars, call>>

\* row.onclick of a row of the table
SelectRow(index) ==
  /\ index \in RenderedRows(currentSteps)
  /\ selectedStepIndex # index
  /\ selectedStepIndex' = index
  /\ UNCHANGED <<currentSteps, currentTestCase, isRecording, toPopup,
                 commands, tests, recorded, saves>>
  /\ UNCHANGED <<runnerVars, call>>

\* deleteStepBtn.onclick, the confirmation accepted
DeleteStep ==
  /\ selectedStepIndex # -1
  /\ currentSteps' = Splice(currentSteps, selectedStepIndex)
  /\ selectedStepIndex' = -1
  /\ RenderAndSync(currentSteps')
  /\ UNCHANGED <<isRecording, toPopup, commands, tests, recorded, saves>>
  /\ UNCHANGED <<runnerVars, call>>

\* moveUpBtn.onclick
MoveUp ==
  /\ ~(selectedStepIndex <= 0)
  /\ LET temp == At(currentSteps, selectedStepIndex)
         first == Put(currentSteps, selectedStepIndex,
                      At(currentSteps, selectedStepIndex - 1))
     IN currentSteps' = Put(first, selectedStepIndex - 1, temp)
  /\ selectedStepIndex' = selectedStepIndex - 1
  /\ RenderAndSync(currentSteps')
  /\ UNCHANGED <<isRecording, toPopup, commands, tests, recorded, saves>>
  /\ UNCHANGED <<runnerVars, call>>

\* moveDownBtn.onclick
MoveDown ==
  /\ ~(selectedStepIndex = -1 \/ selectedStepIndex >= Len(currentSteps) - 1)
  /\ LET temp == At(currentSteps, selectedStepIndex)
         first == Put(currentSteps, selectedStepIndex,
                      At(currentSteps, selectedStepIndex + 1))
     IN currentSteps' = Put(first, selectedStepIndex + 1, temp)
  /\ selectedStepIndex' = selectedStepIndex + 1
  /\ RenderAndSync(currentSteps')
  /\ UNCHANGED <<isRecording, toPopup, commands, tests, recorded, saves>>
  /\ UNCHANGED <<runnerVars, call>>

\* onSaveFlow with a name typed: the steps on screen are posted
SaveFlow ==
  /\ saves < MaxSaves
  /\ saves' = saves + 1
  /\ PostTestCase(currentSteps)
  /\ UNCHANGED <<currentSteps, selectedStepIndex, currentTestCase,
                 isRecording, toPopup, recorded>>
  /\ UNCHANGED <<runnerVars, call>>

\* onFlowSelect: a saved flow is fetched and listed
FlowSelect(testId) ==
  /\ testId \in tests
  /\ currentSteps # mappedSteps(testId)
  /\ currentSteps' = mappedSteps(testId)
  /\ UNCHANGED <<selectedStepIndex, currentTestCase, isRecording, toPopup,
                 commands, tests, recorded, saves>>
  /\ UNCHANGED <<runnerVars, call>>

\* onMessage RECORD_STEP of a content script, with a step
RecordStep ==
  /\ isRecording /\ recorded < MaxRecorded
  /\ recorded' = recorded + 1
  /\ currentTestCase' =
       [steps |-> Append(currentTestCase.steps, RecordedStep(recorded'))]
  /\ toPopup' = Append(toPopup, [type |-> "STEP_RECORDED",
                                 step |-> RecordedStep(recorded')])
  /\ UNCHANGED <<currentSteps, selectedStepIndex, isRecording, commands,
                 tests, saves>>
  /\ UNCHANGED <<runnerVars, call>>

\* the popup's onMessage STEP_RECORDED, and the callback of STOP_RECORDING:
\* renderSteps(testCase.steps) and sendToBackend(testCase)
PopupReceives ==
  /\ toPopup # <<>>
  /\ toPopup' = Tail(toPopup)
  /\ LET message == Head(toPopup)
     IN CASE message.type = "STEP_RECORDED" ->
               /\ currentSteps' = Append(currentSteps, message.step)
               /\ UNCHANGED <<commands, tests>>
          [] message.type = "STOPPED" ->
               /\ currentSteps' = message.testCase.steps
               /\ PostTestCase(message.testCase.steps)
  /\ UNCHANGED <<selectedStepIndex, currentTestCase, isRecording, recorded,
                 saves>>
  /\ UNCHANGED <<runnerVars, call>>

NextRecorder ==
  \/ StartRecordingClick
  \/ StopRecordingClick
  \/ RecordStep
  \/ PopupReceives
  \/ \E index \in RenderedRows(currentSteps) : SelectRow(index)
  \/ DeleteStep
  \/ MoveUp
  \/ MoveDown
  \/ SaveFlow
  \/ \E testId \in 1..MaxSaves : FlowSelect(testId)
  \/ \E testId \in 1..MaxSaves : PutTest(testId, currentSteps)

SpecRecorder == Init /\ [][NextRecorder]_vars


\* the rows of a test in the order they were inserted
RowsOf(testId) == SelectSeq(commands, LAMBDA r : r.test_id = testId)

\* the commands of a list of rows or of steps, in order
SavedCommands(rows) == [i \in 1..Len(rows) |-> rows[i].command]
ListedActions(steps) == [i \in 1..Len(steps) |-> steps[i].action]

\* C40: after appends, deletions and moves followed by a save, the rows of
\* the saved flow are numbered 1..n in the order they were inserted, without
\* gap or duplicate, and they are the steps of the edited list, in its order: the
\* list on screen when Save Flow posts it or a PUT carries it, the list the
\* popup shows from then on when recording is stopped
C40_SavedStepsNumbered ==
  /\ [](\A testId \in tests :
          \A i \in 1..Len(RowsOf(testId)) :
            RowsOf(testId)[i].step_order = i)
  /\ [][\A testId \in tests' :
          RowsOf(testId)' # RowsOf(testId)
            => SavedCommands(RowsOf(testId)') = ListedActions(currentSteps')]_vars

\* a saved flow was listed again, its second step moved up and the list
\* saved: the steps carried the numbers of the earlier order
C40_ReorderedFlowResaved ==
  \E testId \in tests :
    /\ Len(RowsOf(testId)) >= 2
    /\ SavedCommands(RowsOf(testId)) = ListedActions(currentSteps)
    /\ currentSteps[1].step_order = 2
    /\ currentSteps[2].step_order = 1
    /\ RowsOf(testId)[1].command > RowsOf(testId)[2].command
====
